---- MODULE Spec2Model ----
(***************************************************************************)
(* A model of the training-loop core of PyTorch Lightning: the data        *)
(* fetcher, the training epoch loop with its automatic optimization loop,  *)
(* the closure result, the Collective group lifecycle and the distributed  *)
(* bring-up of a strategy.  Each component has its own specification       *)
(* (SpecFetcher, SpecLoop, ...); the variables of the components a          *)
(* specification does not exercise stay parked at their idle values.       *)
(***************************************************************************)
EXTENDS Integers, Sequences, FiniteSets, TLC

VARIABLES
    data_fetcher,   \* the AbstractDataFetcher object (a record of its fields)
    yielded,        \* the (batch, is_last) pairs the consumer received, with `done` as read right after
    iterations,     \* how many times __iter__ was called on the fetcher
    loop,           \* the _TrainingEpochLoop object and the position of its run()
    trainer,        \* the trainer's configuration and flags the loop reads
    obs,            \* what the loop did: hooks called, batches trained, steps taken
    collective,     \* the Collective object and the calls it made to its backend
    strategy,       \* a distributed strategy, its cluster environment and torch.distributed
    closure_io      \* an input of ClosureResult.from_training_step_output and its outcome

vars == <<data_fetcher, yielded, iterations, loop, trainer, obs, collective, strategy, closure_io>>

\* Sequencing of two statements: `e` is evaluated once and Body continues
\* from its value
Then(e, Body(_)) == CHOOSE r \in { Body(v) : v \in {e} } : TRUE

(***************************************************************************)
(* Bounds of the model.                                                    *)
(***************************************************************************)
MaxBatches == 3
MaxPrefetch == 2
MaxIterations == 2

None == 0

(***************************************************************************)
(* Dataloaders.  A dataloader is an iterable of `len` elements (or of      *)
(* unboundedly many when `infinite`); the element at position i is the     *)
(* batch i itself, or None when i is in `none`.  A batch is referred to by *)
(* its position, so that two None batches are still distinct objects.      *)
(***************************************************************************)
FiniteLoaders ==
    { [len |-> n, infinite |-> FALSE, none |-> s] : n \in 0..MaxBatches, s \in SUBSET (1..MaxBatches) }

SizedLoaders == { d \in FiniteLoaders : d.none \subseteq 1..d.len }

Elem(dl, i) == IF i \in dl.none THEN None ELSE i

HasNext(dl, pos) == dl.infinite \/ pos < dl.len

(***************************************************************************)
(* The data fetcher (pytorch_lightning/utilities/fetching.py).             *)
(***************************************************************************)
\* AbstractDataFetcher.__init__ followed by reset() and setup(dataloader)
NewFetcher(variant, prefetch, dl, ft) ==
    [ variant          |-> variant,
      prefetch_batches |-> prefetch + 1,
      dataloader       |-> dl,
      fault_tolerant   |-> ft,
      start_pos        |-> 0,       \* where iter(dataloader) starts (a restored sampler state)
      dataloader_iter  |-> 0,       \* the number of elements next(dataloader_iter) has returned
      batches          |-> << >>,
      fetched          |-> 0,
      done             |-> FALSE,
      events           |-> << >>,   \* InterBatchParallelismDataFetcher.events
      ev_count         |-> 0,       \* events created so far (their identities)
      cache_states     |-> << >>,   \* dataloader_iter.cache_states
      iter_state       |-> 0,       \* dataloader_iter.state: batches consumed as of the stored state
      gen              |-> "none",  \* where the fetching_function generator is suspended
      waited           |-> 0 ]      \* the batch whose event the last wait() waited on

\* AbstractDataFetcher.reset
reset_fetcher(f) == [f EXCEPT !.batches = << >>, !.fetched = 0, !.done = FALSE]

\* AbstractDataFetcher.__iter__
iter_fetcher(f) ==
    [reset_fetcher(f) EXCEPT !.dataloader_iter = f.start_pos,
                             !.cache_states = << >>,
                             !.iter_state = f.start_pos,
                             !.gen = "start"]

\* AbstractDataFetcher._store_dataloader_iter_state, called by the patched
\* next(dataloader_iter) with the state of the batch it has just produced
_store_dataloader_iter_state(f, iter_state) ==
    LET cached == Append(f.cache_states, iter_state)
    IN  IF f.fetched >= f.prefetch_batches
        THEN [f EXCEPT !.cache_states = Tail(cached), !.iter_state = Head(cached)]
        ELSE [f EXCEPT !.cache_states = cached]

\* on_fetch_start: DataFetcher does nothing, InterBatchParallelismDataFetcher appends an event
on_fetch_start(f) ==
    IF f.variant = "InterBatchParallelismDataFetcher"
    THEN [f EXCEPT !.events = Append(@, [id |-> f.ev_count + 1, recorded |-> 0]),
                   !.ev_count = @ + 1]
    ELSE f

\* on_fetch_end: append_batch, and InterBatchParallelismDataFetcher records events[-1]
on_fetch_end(f, batch) ==
    LET g == [f EXCEPT !.batches = Append(@, batch)]
    IN  IF f.variant = "InterBatchParallelismDataFetcher" /\ Len(f.events) > 0
        THEN [g EXCEPT !.events[Len(f.events)].recorded = batch]
        ELSE g

\* wait: DataFetcher does nothing, InterBatchParallelismDataFetcher pops and waits on events[0]
wait(f) ==
    IF f.variant = "InterBatchParallelismDataFetcher"
    THEN [f EXCEPT !.events = Tail(@), !.waited = Head(f.events).recorded]
    ELSE f

\* DataFetcher._fetch_next_batch: the fetcher after it, and whether next(dataloader_iter)
\* raised StopIteration (on_fetch_start has then already run)
_fetch_next_batch(f) ==
    Then(on_fetch_start(f), LAMBDA s :
        IF ~HasNext(s.dataloader, s.dataloader_iter)
        THEN [f |-> s, raised |-> TRUE]
        ELSE LET batch == s.dataloader_iter + 1
                 n == [s EXCEPT !.dataloader_iter = batch]
             IN  Then(IF s.fault_tolerant THEN _store_dataloader_iter_state(n, batch) ELSE n,
                      LAMBDA p : [f |-> on_fetch_end([p EXCEPT !.fetched = @ + 1], batch),
                                  raised |-> FALSE]))

\* DataFetcher._prefetching
RECURSIVE _prefetching(_, _)
_prefetching(f, prefetch_batches) ==
    IF prefetch_batches = 0
    THEN f
    ELSE Then(_fetch_next_batch(f), LAMBDA r :
             IF r.raised THEN r.f ELSE _prefetching(r.f, prefetch_batches - 1))

\* _yield_batch with is_last never set
_yield_batch_never_last(f, yield_batch, at) ==
    Then(wait(f), LAMBDA w :
        IF yield_batch = None \/ Elem(w.dataloader, yield_batch) = None
        THEN [f |-> [w EXCEPT !.batches = Tail(@), !.gen = at],
              out |-> [batch |-> Head(w.batches), is_last |-> FALSE],
              stop |-> FALSE]
        ELSE [f |-> [w EXCEPT !.gen = at],
              out |-> [batch |-> yield_batch, is_last |-> FALSE],
              stop |-> FALSE])

\* DataFetcher._yield_batch: the fetcher suspended at its yield, and the pair it yields
_yield_batch(f, yield_batch, at) ==
    Then(wait(f), LAMBDA w :
        IF yield_batch = None \/ Elem(w.dataloader, yield_batch) = None
        THEN [f |-> [w EXCEPT !.batches = Tail(@), !.gen = at],
              out |-> [batch |-> Head(w.batches), is_last |-> Len(Tail(w.batches)) = 0],
              stop |-> FALSE]
        ELSE [f |-> [w EXCEPT !.gen = at],
              out |-> [batch |-> yield_batch, is_last |-> FALSE],
              stop |-> FALSE])

\* the generator returns: next() raises StopIteration
GeneratorReturn(f) ==
    [f |-> [f EXCEPT !.gen = "finished"], out |-> [batch |-> None, is_last |-> FALSE], stop |-> TRUE]

\* DataFetcher._consume_prefetched_batches, resumed in its while loop; when the
\* batches are drained fetching_function's `while not self.done` ends too
ConsumeLoop(f) ==
    IF Len(f.batches) > 0 THEN _yield_batch(f, None, "consume") ELSE GeneratorReturn(f)

_consume_prefetched_batches(f) == ConsumeLoop([f EXCEPT !.done = TRUE])

\* the inner loop fetching two batches before each yield
InnerLoop_fetches_twice(f) ==
    IF Len(f.batches) = 0
    THEN _consume_prefetched_batches(f)
    ELSE Then(_fetch_next_batch([f EXCEPT !.batches = Tail(@)]), LAMBDA r :
             IF r.raised
             THEN _consume_prefetched_batches([r.f EXCEPT !.batches = <<Head(f.batches)>> \o @])
             ELSE Then(_fetch_next_batch(r.f), LAMBDA q :
                      _yield_batch(q.f, Head(f.batches), "loop")))

\* fetching_function's inner `while self.batches` loop, up to its next yield
InnerLoop(f) ==
    IF Len(f.batches) = 0
    THEN _consume_prefetched_batches(f)
    ELSE LET yield_batch == Head(f.batches)
         IN  Then(_fetch_next_batch([f EXCEPT !.batches = Tail(@)]), LAMBDA r :
                 IF r.raised
                 THEN _consume_prefetched_batches([r.f EXCEPT !.batches = <<yield_batch>> \o @])
                 ELSE _yield_batch(r.f, yield_batch, "loop"))

\* DataFetcher.fetching_function: one next() on the generator, from where it is suspended
fetching_function(f) ==
    CASE f.gen = "start"   -> Then(_prefetching([f EXCEPT !.done = FALSE], f.prefetch_batches),
                                   LAMBDA s : InnerLoop(s))
      [] f.gen = "loop"    -> InnerLoop(f)
      [] f.gen = "consume" -> ConsumeLoop(f)
      [] OTHER             -> GeneratorReturn(f)

(***************************************************************************)
(* Progress trackers (pytorch_lightning/loops/progress.py).  A tracker is  *)
(* a record of counters; a Progress holds a `total` and a `current` one.   *)
(***************************************************************************)
ZeroTracker(fields) == [k \in fields |-> 0]

BatchFields == {"ready", "started", "processed", "completed"}
StepFields == {"ready", "completed"}
ZeroGradFields == {"ready", "started", "completed"}

NewProgress(fields) == [total |-> ZeroTracker(fields), current |-> ZeroTracker(fields)]

\* Progress.increment_ready / increment_started / increment_processed / increment_completed
increment(p, k) == [p EXCEPT !.total[k] = @ + 1, !.current[k] = @ + 1]

\* Progress.reset_on_run: the current tracker starts again from zero
reset_on_run(p) == [p EXCEPT !.current = [k \in DOMAIN p.current |-> 0]]

\* Progress.reset_on_restart: every counter of the current tracker falls back to `completed`
reset_on_restart(p) == [p EXCEPT !.current = [k \in DOMAIN p.current |-> p.current.completed]]

\* BatchProgress.reset_on_run also clears is_last_batch
batch_reset_on_run(bp) == [reset_on_run(bp) EXCEPT !.is_last_batch = FALSE]

NewBatchProgress == [total |-> ZeroTracker(BatchFields), current |-> ZeroTracker(BatchFields),
                     is_last_batch |-> FALSE]

NewOptimizationProgress == [step |-> NewProgress(StepFields), zero_grad |-> NewProgress(ZeroGradFields)]

\* OptimizationProgress.optimizer_steps
optimizer_steps(op) == op.step.total.completed

\* OptimizationProgress.reset_on_run / reset_on_restart
optim_reset_on_run(op) == [step |-> reset_on_run(op.step), zero_grad |-> reset_on_run(op.zero_grad)]
optim_reset_on_restart(op) ==
    [step |-> reset_on_restart(op.step), zero_grad |-> reset_on_restart(op.zero_grad)]

(***************************************************************************)
(* ClosureResult (pytorch_lightning/loops/optimization/optimizer_loop.py). *)
(* A Python value is a record with its `type`; a tensor carries its value  *)
(* as the fraction num/den, a dict its items as a function from keys.      *)
(***************************************************************************)
MaxLoss == 2
MaxAccumulate == 2

PyNone == [type |-> "None"]
Tensor(num, den) == [type |-> "Tensor", num |-> num, den |-> den]
PyFloat == [type |-> "float"]
PyStr == [type |-> "str"]
PyDict(items) == [type |-> "dict", items |-> items]

Tensors == { Tensor(v, 1) : v \in 1..MaxLoss }
DictKeys == {"loss", "log"}
DictValues == Tensors \cup {PyNone, PyFloat, PyStr}
Dicts == { PyDict(items) : items \in UNION { [ks -> DictValues] : ks \in SUBSET DictKeys } }
StepOutputs == Tensors \cup Dicts \cup {PyNone, PyFloat, PyStr}

\* dict.get(key): None when the key is absent
dict_get(d, key) == IF key \in DOMAIN d.items THEN d.items[key] ELSE PyNone

\* extra that keeps the "loss" entry
extra_of_keeps_loss(d) == d.items

\* {k: v for k, v in training_step_output.items() if k != "loss"}
extra_of(d) == [k \in (DOMAIN d.items) \ {"loss"} |-> d.items[k]]

EmptyDict == [k \in {} |-> PyNone]

Raise(exc, output) ==
    [raised |-> exc, closure_loss |-> PyNone, loss |-> PyNone, extra |-> EmptyDict, output_after |-> output]

\* ClosureResultOf without the division by normalize
ClosureResultOf_unscaled(closure_loss, extra, normalize, output) ==
    CASE closure_loss.type = "None" ->
            [raised |-> "no", closure_loss |-> PyNone, loss |-> PyNone, extra |-> extra,
             output_after |-> output]
      [] closure_loss.type = "Tensor" ->
            [raised |-> "no", closure_loss |-> closure_loss, loss |-> closure_loss, extra |-> extra,
             output_after |-> output]
      [] closure_loss.type = "float" -> Raise("AttributeError", output)
      [] OTHER -> Raise("TypeError", output)

\* closure_loss / normalize, then ClosureResult.__post_init__ -> _clone_loss
\* (closure_loss.detach().clone()): only a tensor can be divided and detached
ClosureResultOf(closure_loss, extra, normalize, output) ==
    CASE closure_loss.type = "None" ->
            [raised |-> "no", closure_loss |-> PyNone, loss |-> PyNone, extra |-> extra,
             output_after |-> output]
      [] closure_loss.type = "Tensor" ->
            LET scaled == Tensor(closure_loss.num, closure_loss.den * normalize)
            IN  [raised |-> "no", closure_loss |-> scaled, loss |-> scaled, extra |-> extra,
                 output_after |-> output]
      [] closure_loss.type = "float" -> Raise("AttributeError", output)
      [] OTHER -> Raise("TypeError", output)

\* ClosureResult.from_training_step_output
from_training_step_output(training_step_output, normalize) ==
    CASE training_step_output.type = "dict" ->
            LET closure_loss == dict_get(training_step_output, "loss")
            IN  IF closure_loss.type = "None"
                THEN Raise("MisconfigurationException", training_step_output)
                ELSE ClosureResultOf(closure_loss, extra_of(training_step_output), normalize,
                                     training_step_output)
      [] training_step_output.type = "Tensor" ->
            ClosureResultOf(training_step_output, EmptyDict, normalize, training_step_output)
      [] training_step_output.type # "None" ->
            Raise("MisconfigurationException", training_step_output)
      [] OTHER -> ClosureResultOf(PyNone, EmptyDict, normalize, training_step_output)

(***************************************************************************)
(* Collective (lightning_lite/plugins/collectives/collective.py).  The     *)
(* backend bindings init_group, new_group and destroy_group are abstract:  *)
(* the model records the calls made to them.  Group handles are numbered   *)
(* in the order new_group creates them.                                    *)
(***************************************************************************)
MaxCollectiveOps == 4

KwargKeys == {"backend", "ranks"}

\* create_group without its guard
create_group_unguarded(c, init_kwargs, group_kwargs) ==
    [c EXCEPT !._init_kwargs = @ \cup init_kwargs,
              !._group_kwargs = @ \cup group_kwargs,
              !.calls = @ \o <<"init_group", "new_group">>,
              !.groups_created = @ + 1,
              !._group = c.groups_created + 1,
              !.last = [op |-> "create_group", raised |-> "no"]]

\* Collective.create_group
create_group(c, init_kwargs, group_kwargs) ==
    IF c._group # None
    THEN [c EXCEPT !.last = [op |-> "create_group", raised |-> "RuntimeError"]]
    ELSE [c EXCEPT !._init_kwargs = @ \cup init_kwargs,
                   !._group_kwargs = @ \cup group_kwargs,
                   !.calls = @ \o <<"init_group", "new_group">>,
                   !.groups_created = @ + 1,
                   !._group = c.groups_created + 1,
                   !.last = [op |-> "create_group", raised |-> "no"]]

\* Collective.__init__
NewCollective(instantiate_group, init_kwargs, group_kwargs) ==
    LET c == [ _init_kwargs   |-> init_kwargs,
               _group_kwargs  |-> group_kwargs,
               _group         |-> None,
               calls          |-> << >>,    \* the backend calls made, in order
               groups_created |-> 0,
               destroyed      |-> << >>,    \* the handles passed to destroy_group, in order
               ops            |-> 0,
               raised_by      |-> {},       \* the operations that have raised so far
               last           |-> [op |-> "__init__", raised |-> "no"] ]
    IN  IF instantiate_group THEN create_group(c, {}, {}) ELSE c

\* teardown that destroys the group but keeps the handle
teardown_keeps_group(c) ==
    IF c._group = None
    THEN [c EXCEPT !.last = [op |-> "teardown", raised |-> "RuntimeError"]]
    ELSE [c EXCEPT !.calls = Append(@, "destroy_group"),
                   !.destroyed = Append(@, c._group),
                   !.last = [op |-> "teardown", raised |-> "no"]]

\* Collective.teardown
teardown(c) ==
    IF c._group = None
    THEN [c EXCEPT !.last = [op |-> "teardown", raised |-> "RuntimeError"]]
    ELSE [c EXCEPT !.calls = Append(@, "destroy_group"),
                   !.destroyed = Append(@, c._group),
                   !._group = None,
                   !.last = [op |-> "teardown", raised |-> "no"]]

\* Collective.group (the property)
group(c) ==
    IF c._group = None
    THEN [c EXCEPT !.last = [op |-> "group", raised |-> "RuntimeError"]]
    ELSE [c EXCEPT !.last = [op |-> "group", raised |-> "no", value |-> c._group]]

(***************************************************************************)
(* Distributed bring-up of a strategy: FSDPStrategy.setup_environment      *)
(* (lightning_lite/strategies/fsdp.py) with init_dist_connection           *)
(* (lightning_lite/utilities/distributed.py), and DDPPlugin.pre_training   *)
(* (pytorch_lightning/plugins/training_type/ddp.py).  `dist` stands for    *)
(* torch.distributed: whether it is available and initialized, and every   *)
(* init_process_group call made on it.                                     *)
(***************************************************************************)
MaxNodes == 2
MaxProcesses == 2
MaxSetupCalls == 3

\* LSFEnvironment.set_global_rank / set_world_size ignore the call; an
\* environment that does not own these facts stores them
set_global_rank(env, rank) ==
    IF env.kind = "LSFEnvironment" THEN env ELSE [env EXCEPT !._global_rank = rank]

\* set_world_size that stores the size whatever the environment
set_world_size_stores(env, size) == [env EXCEPT !._world_size = size]

set_world_size(env, size) ==
    IF env.kind = "LSFEnvironment" THEN env ELSE [env EXCEPT !._world_size = size]

\* the rank facts a strategy reports: a ParallelStrategy reads them from its
\* cluster environment, the DDPPlugin keeps its own fields
RankFacts(st) ==
    IF st.kind = "FSDPStrategy"
    THEN [global_rank |-> st.cluster_environment._global_rank,
          local_rank  |-> st.cluster_environment._local_rank,
          node_rank   |-> st.cluster_environment._node_rank,
          world_size  |-> st.cluster_environment._world_size]
    ELSE st.ranks

\* FSDPStrategy._set_world_ranks
_set_world_ranks(st) ==
    LET env == st.cluster_environment
        e1 == set_global_rank(env, env._node_rank * st.num_processes + env._local_rank)
        e2 == set_world_size(e1, st.num_nodes * st.num_processes)
    IN  [st EXCEPT !.cluster_environment = e2, !.rank_zero_only_rank = e2._global_rank]

\* torch.distributed.init_process_group
init_process_group(dist, rank, world_size) ==
    [dist EXCEPT !.initialized = TRUE,
                 !.init_calls = Append(@, [rank |-> rank, world_size |-> world_size])]

\* init_dist_connection without the early return on an initialized process group
init_dist_connection_always_inits(st) ==
    IF ~st.dist.available
    THEN [st EXCEPT !.raised = "RuntimeError"]
    ELSE [st EXCEPT !.dist = init_process_group(@, st.cluster_environment._global_rank,
                                                st.cluster_environment._world_size)]

\* init_dist_connection
init_dist_connection(st) ==
    IF ~st.dist.available
    THEN [st EXCEPT !.raised = "RuntimeError"]
    ELSE IF st.dist.initialized
    THEN st
    ELSE [st EXCEPT !.dist = init_process_group(@, st.cluster_environment._global_rank,
                                                st.cluster_environment._world_size)]

\* FSDPStrategy._setup_distributed
_setup_distributed(st) == init_dist_connection(_set_world_ranks(st))

\* FSDPStrategy.setup_environment
setup_environment(st) == _setup_distributed([st EXCEPT !.raised = "no"])

\* DDPPlugin.set_world_ranks
set_world_ranks(st) ==
    LET node_rank == st.cluster_environment._node_rank
    IN  [st EXCEPT !.ranks = [local_rank  |-> st.task_idx,
                              node_rank   |-> node_rank,
                              global_rank |-> node_rank * st.num_processes + st.task_idx,
                              world_size  |-> st.num_nodes * st.num_processes]]

\* DDPPlugin.init_ddp_connection
init_ddp_connection(st, global_rank, world_size) ==
    IF ~st.dist.initialized
    THEN [st EXCEPT !.dist = init_process_group(@, global_rank, world_size)]
    ELSE st

\* DDPPlugin.pre_training, up to the connection
pre_training(st) ==
    LET r == set_world_ranks([st EXCEPT !.raised = "no"])
        w == [r EXCEPT !.rank_zero_only_rank = r.ranks.global_rank]
    IN  init_ddp_connection(w, w.ranks.global_rank, w.ranks.world_size)

(***************************************************************************)
(* The training epoch loop                                                 *)
(* (pytorch_lightning/loops/epoch/training_epoch_loop.py) and the          *)
(* automatic optimization loop (loops/optimization/optimizer_loop.py).     *)
(* The operators below work on a bundle S of the objects a handler         *)
(* touches: S.loop, S.trainer, S.fetcher and the observations S.obs, with  *)
(* S.exc the exception the handler is raising ("no" when it is not).       *)
(***************************************************************************)
INF == -1          \* float("inf"): only ever compared for equality
NoLimit == -1      \* max_steps = -1: no limit

MaxSteps == 2
MaxClosureCalls == 2
MaxRestarts == 1

Bundle(lp, tr, f, ob) == [loop |-> lp, trainer |-> tr, fetcher |-> f, obs |-> ob, exc |-> "no"]

\* loops.utilities._is_max_limit_reached
_is_max_limit_reached(current, maximum) == maximum # NoLimit /\ current >= maximum

\* _TrainingEpochLoop.batch_idx and total_batch_idx
batch_idx(S) == S.loop.batch_progress.current.ready - 1
total_batch_idx(S) == S.loop.batch_progress.total.ready - 1

\* _TrainingEpochLoop.global_step
global_step(S) ==
    IF S.trainer.automatic_optimization
    THEN optimizer_steps(S.loop.optim_progress)
    ELSE S.loop.manual_steps

\* _TrainingEpochLoop._accumulated_batches_reached
_accumulated_batches_reached(S) ==
    S.loop.batch_progress.current.ready % S.trainer.accumulate_grad_batches = 0

\* _TrainingEpochLoop._num_ready_batches_reached
_num_ready_batches_reached(S) ==
    LET epoch_finished_on_ready ==
            S.loop.batch_progress.current.ready = S.trainer.num_training_batches
    IN  epoch_finished_on_ready \/ S.loop.batch_progress.is_last_batch

\* _should_accumulate that keeps accumulating on the final batch
_should_accumulate_on_final_batch(S) == ~_accumulated_batches_reached(S)

\* _TrainingEpochLoop._should_accumulate
_should_accumulate(S) ==
    LET accumulation_done == _accumulated_batches_reached(S)
        is_final_batch == _num_ready_batches_reached(S)
        strategy_accumulates_on_final_batch ==
            S.trainer.handles_gradient_accumulation \/ ~is_final_batch
    IN  ~accumulation_done /\ strategy_accumulates_on_final_batch

\* _is_training_done that forgets max_steps
_is_training_done_ignores_max_steps(S) == _num_ready_batches_reached(S)

\* _TrainingEpochLoop._is_training_done
_is_training_done(S) ==
    LET max_steps_reached == _is_max_limit_reached(global_step(S), S.loop.max_steps)
    IN  max_steps_reached \/ _num_ready_batches_reached(S)

\* _TrainingEpochLoop._is_validation_done
_is_validation_done(S) == ~S.loop.restarting \/ S.loop.val_loop.done

\* FitLoop._should_stop_early: the minimums of the fit are met
_should_stop_early(S) ==
    LET met_min_steps == IF S.loop.min_steps # None THEN global_step(S) >= S.loop.min_steps ELSE TRUE
    IN  S.trainer.met_min_epochs /\ met_min_steps

\* done that stops on request whether or not the minimums are met
done_ignores_minimums(S) ==
    IF _is_training_done(S) /\ _is_validation_done(S) THEN TRUE ELSE S.trainer.should_stop

\* _TrainingEpochLoop.done
done(S) ==
    IF _is_training_done(S) /\ _is_validation_done(S)
    THEN TRUE
    ELSE IF S.trainer.should_stop THEN _should_stop_early(S) ELSE FALSE

\* _TrainingEpochLoop._should_check_val_epoch
_should_check_val_epoch(S) ==
    S.trainer.enable_validation
    /\ (\/ S.trainer.check_val_every_n_epoch = None
        \/ (S.trainer.current_epoch + 1) % S.trainer.check_val_every_n_epoch = 0)

\* _should_check_val_fx that is true after every batch of an epoch with validation
_should_check_val_fx_every_batch(S) == _should_check_val_epoch(S)

\* _TrainingEpochLoop._should_check_val_fx
_should_check_val_fx(S) ==
    LET is_infinite_dataset == S.trainer.val_check_batch = INF
        is_last_batch == S.loop.batch_progress.is_last_batch
        current_iteration == IF S.trainer.check_val_every_n_epoch = None
                             THEN total_batch_idx(S) ELSE batch_idx(S)
    IN  IF ~_should_check_val_epoch(S) THEN FALSE
        ELSE IF is_last_batch /\ is_infinite_dataset THEN TRUE
        ELSE IF S.trainer.should_stop THEN TRUE
        ELSE IF S.trainer.limit_train_batches # None /\ is_infinite_dataset
             THEN (batch_idx(S) + 1) % S.trainer.limit_train_batches = 0
        ELSE IF S.trainer.val_check_batch # INF
             THEN (current_iteration + 1) % S.trainer.val_check_batch = 0
        ELSE is_last_batch

\* _get_monitor_value that finds every metric
_get_monitor_value_always_there(S, key) == 1

\* _TrainingEpochLoop._get_monitor_value: trainer.callback_metrics.get(key),
\* None when the metric is missing (a metric that is there reads as 1)
_get_monitor_value(S, key) == IF key \in S.trainer.callback_metrics THEN 1 ELSE None

\* _TrainingEpochLoop._update_learning_rates: the configs from index i on
RECURSIVE _update_learning_rates(_, _, _, _)
_update_learning_rates(S, interval, update_plateau_schedulers, i) ==
    IF ~S.trainer.automatic_optimization \/ i > Len(S.trainer.lr_scheduler_configs)
    THEN S
    ELSE LET config == S.trainer.lr_scheduler_configs[i]
             current_idx == (IF interval = "step" THEN batch_idx(S) ELSE S.trainer.current_epoch) + 1
             stepped == [S EXCEPT !.loop.scheduler_progress = increment(increment(@, "ready"), "completed"),
                                  !.obs.lr_scheduler_steps = Append(@, [config |-> i, interval |-> interval,
                                        batch |-> S.loop.batch_progress.current.ready,
                                        after_val |-> S.obs.in_advance_end,
                                        vals |-> Len(S.obs.val_runs)])]
         IN  IF update_plateau_schedulers # config.reduce_on_plateau
             THEN _update_learning_rates(S, interval, update_plateau_schedulers, i + 1)
             ELSE IF config.interval = interval /\ current_idx % config.frequency = 0
             THEN IF config.reduce_on_plateau /\ _get_monitor_value(S, config.monitor) = None
                  THEN IF config.strict
                       THEN [S EXCEPT !.exc = "MisconfigurationException"]
                       ELSE _update_learning_rates(S, interval, update_plateau_schedulers, i + 1)
                  ELSE Then(stepped, LAMBDA T :
                           _update_learning_rates(T, interval, update_plateau_schedulers, i + 1))
             ELSE _update_learning_rates(S, interval, update_plateau_schedulers, i + 1)

\* update_lr_schedulers that steps "step"-interval schedulers on accumulating batches too
update_lr_schedulers_while_accumulating(S, interval, update_plateau_schedulers) ==
    _update_learning_rates(S, interval, update_plateau_schedulers, 1)

\* _TrainingEpochLoop.update_lr_schedulers
update_lr_schedulers(S, interval, update_plateau_schedulers) ==
    IF interval = "step" /\ _should_accumulate(S)
    THEN S
    ELSE _update_learning_rates(S, interval, update_plateau_schedulers, 1)

\* _AutomaticOptimization._make_zero_grad_fn: whether the closure gets a zero_grad function
_make_zero_grad_fn(S, kwargs_batch_idx) ==
    kwargs_batch_idx % S.trainer.accumulate_grad_batches = 0

\* kwargs.get("batch_idx", 0) for the kwargs _build_kwargs made
kwargs_get_batch_idx(S, idx) == IF S.trainer.step_has_batch_idx THEN idx ELSE 0

\* Closure.closure: the training step, then zero_grad and backward
closure(S, training_step_output, zero_grad_fn) ==
    LET result == from_training_step_output(training_step_output, S.trainer.accumulate_grad_batches)
        step == S.loop.optim_progress.step.total
        called == [S EXCEPT !.obs.closure_calls = @ + 1,
                            !.obs.closure_calls_blocked = @ + (IF S.obs.sync_blocked THEN 1 ELSE 0),
                            !.obs.steps_in_flight = step.ready - step.completed]
        zeroed == IF zero_grad_fn
                  THEN [called EXCEPT
                          !.loop.optim_progress.zero_grad =
                              increment(increment(increment(@, "ready"), "started"), "completed"),
                          !.obs.grad_log = Append(@, "zero_grad")]
                  ELSE called
        backed == IF result.closure_loss.type # "None"
                  THEN [zeroed EXCEPT !.obs.grad_log = Append(@, "backward"),
                                      !.obs.backward_losses = Append(@, result.closure_loss),
                                      !.obs.backward_of = Append(@, training_step_output)]
                  ELSE zeroed
    IN  IF result.raised # "no"
        THEN [called EXCEPT !.exc = result.raised]
        ELSE [backed EXCEPT !.obs.closure_result = TRUE]

\* optimizer.step(closure): the optimizer calls the closure as often as it chooses
RECURSIVE optimizer_step(_, _, _, _)
optimizer_step(S, training_step_output, zero_grad_fn, calls) ==
    IF calls = 0 \/ S.exc # "no"
    THEN S
    ELSE Then(closure(S, training_step_output, zero_grad_fn), LAMBDA T :
             optimizer_step(T, training_step_output, zero_grad_fn, calls - 1))

\* _optimizer_step that counts the step whether or not the batch accumulates
_optimizer_step_always_counts(S, training_step_output, zero_grad_fn) ==
    Then([S EXCEPT !.loop.optim_progress.step = increment(@, "ready"),
                   !.obs.optimizer_step_calls = @ + 1], LAMBDA called :
    Then(optimizer_step(called, training_step_output, zero_grad_fn,
                        S.trainer.optimizer_closure_calls), LAMBDA hooked :
        IF hooked.exc # "no"
        THEN hooked
        ELSE [hooked EXCEPT !.loop.optim_progress.step = increment(@, "completed"),
                            !.obs.grad_log = Append(@, "step")]))

\* _AutomaticOptimization._optimizer_step
_optimizer_step(S, training_step_output, zero_grad_fn) ==
    LET should_accumulate == _should_accumulate(S)
        ready == IF ~should_accumulate
                 THEN [S EXCEPT !.loop.optim_progress.step = increment(@, "ready")]
                 ELSE S
    IN  Then([ready EXCEPT !.obs.optimizer_step_calls = @ + 1], LAMBDA called :
        Then(optimizer_step(called, training_step_output, zero_grad_fn,
                            S.trainer.optimizer_closure_calls), LAMBDA hooked :
            IF hooked.exc # "no"
            THEN hooked
            ELSE IF ~should_accumulate
            THEN [hooked EXCEPT !.loop.optim_progress.step = increment(@, "completed"),
                                !.obs.grad_log = Append(@, "step")]
            ELSE hooked))

\* loops.utilities._block_parallel_sync_behavior around one closure call: the
\* scope is left on every path out of it
blocked_closure(S, training_step_output, zero_grad_fn) ==
    Then([S EXCEPT !.obs.sync_blocked = TRUE], LAMBDA entered :
        [closure(entered, training_step_output, zero_grad_fn) EXCEPT !.obs.sync_blocked = FALSE])

\* _AutomaticOptimization.run
optimizer_loop_run(S, training_step_output, kwargs_batch_idx) ==
    LET zero_grad_fn == _make_zero_grad_fn(S, kwargs_batch_idx)
    IN  Then([S EXCEPT !.obs.closure_result = FALSE, !.obs.steps_in_flight = 0], LAMBDA fresh :
        Then(IF ~S.trainer.handles_gradient_accumulation /\ _should_accumulate(S)
             THEN blocked_closure(fresh, training_step_output, zero_grad_fn)
             ELSE _optimizer_step(fresh, training_step_output, zero_grad_fn), LAMBDA ran :
            IF ran.exc # "no"
            THEN ran
            ELSE IF ~ran.obs.closure_result
            THEN [ran EXCEPT !.exc = "MisconfigurationException"]   \* closure.consume_result()
            ELSE ran))

\* _ManualOptimization.run: the user's training_step steps the optimizer itself
manual_loop_run(S) == [S EXCEPT !.loop.manual_steps = @ + S.trainer.manual_steps_per_batch]

\* advance's tail without the increment of `completed`
advance_tail_without_completed(S, batch) ==
    Then([S EXCEPT !.loop.batch_progress = increment(@, "processed")], LAMBDA processed :
    Then(update_lr_schedulers(processed, "step", FALSE), LAMBDA stepped :
        [stepped EXCEPT !.obs.on_train_batch_end = Append(@, batch)]))

\* _TrainingEpochLoop.advance from `increment_processed` to its end.  A callback
\* that requests an early stop sets trainer.should_stop in on_train_batch_end.
advance_tail(S, batch) ==
    Then([S EXCEPT !.loop.batch_progress = increment(@, "processed")], LAMBDA processed :
    Then(update_lr_schedulers(processed, "step", FALSE), LAMBDA stepped :
    Then(IF stepped.exc = "no" /\ _num_ready_batches_reached(stepped)
         THEN update_lr_schedulers(stepped, "epoch", FALSE)
         ELSE stepped, LAMBDA epoched :
        IF epoched.exc # "no"
        THEN epoched
        ELSE [epoched EXCEPT !.obs.on_train_batch_end = Append(@, batch),
                             !.trainer.should_stop =
                                 @ \/ S.loop.batch_progress.current.ready = S.trainer.early_stop_at,
                             !.loop.batch_progress = increment(@, "completed")])))

\* on_train_batch_start hooks whose response is ignored
on_train_batch_start_ignores_response(S, batch, response) ==
    [S EXCEPT !.obs.on_train_batch_start = Append(@, batch),
              !.obs.responses = Append(@, response)]

\* _TrainingEpochLoop.advance, the on_train_batch_start hooks: a response of
\* -1 ends the epoch
on_train_batch_start(S, batch, response) ==
    Then([S EXCEPT !.obs.on_train_batch_start = Append(@, batch),
                   !.obs.responses = Append(@, response)], LAMBDA hooked :
        IF response = -1
        THEN [hooked EXCEPT !.loop.batch_progress = increment(@, "processed"),
                            !.exc = "StopIteration"]
        ELSE hooked)

\* _TrainingEpochLoop.advance.  `response` is what on_train_batch_start returns
\* and `training_step_output` what the training step returns for this batch.
advance(S, response, training_step_output) ==
    IF S.loop.restarting /\ _should_check_val_fx(S)
    THEN [S EXCEPT !.obs.restart_returns = @ + 1]
    ELSE
    LET idx == batch_idx(S) + 1
    IN  Then(fetching_function(S.fetcher), LAMBDA r :
        IF r.stop
        THEN [S EXCEPT !.loop.val_loop.restarting = FALSE, !.fetcher = r.f, !.exc = "StopIteration"]
        ELSE
        LET batch == r.out.batch
        IN  Then([S EXCEPT !.loop.val_loop.restarting = FALSE,
                           !.fetcher = r.f,
                           !.loop.batch_progress.is_last_batch = r.f.done,
                           !.obs.fetched = Append(@, batch),
                           !.loop.batch_progress = increment(@, "ready")], LAMBDA ready :
            IF Elem(ready.fetcher.dataloader, batch) = None
            THEN advance_tail(ready, batch)
            ELSE
            Then(on_train_batch_start(ready, batch, response), LAMBDA hooked :
                IF hooked.exc # "no"
                THEN hooked
                ELSE
                Then([hooked EXCEPT !.loop.batch_progress = increment(@, "started"),
                                    !.obs.trained = Append(@, batch)], LAMBDA started :
                Then(IF started.trainer.automatic_optimization
                     THEN optimizer_loop_run(started, training_step_output,
                                             kwargs_get_batch_idx(started, idx))
                     ELSE manual_loop_run(started), LAMBDA ran :
                    IF ran.exc # "no" THEN ran ELSE advance_tail(ran, batch))))))

\* _TrainingEpochLoop._run_validation: the validation loop runs to its end
_run_validation(S) ==
    [S EXCEPT !.loop.val_loop = [restarting |-> FALSE, done |-> TRUE],
              !.obs.val_runs = Append(@, [batch |-> S.loop.batch_progress.current.ready,
                                          completed |-> S.loop.batch_progress.current.completed])]

\* on_advance_end that consults the termination flag before validation
on_advance_end_sigterm_first(S) ==
    IF ~_is_training_done(S) /\ S.trainer.received_sigterm
    THEN [S EXCEPT !.exc = "SIGTERMException"]
    ELSE IF _should_check_val_fx(S) THEN _run_validation(S) ELSE S

\* on_advance_end that raises on the termination flag even when training is done
on_advance_end_raises_when_done(S) ==
    Then(IF _should_check_val_fx(S) THEN _run_validation(S) ELSE S, LAMBDA validated :
        IF validated.trainer.received_sigterm
        THEN [validated EXCEPT !.exc = "SIGTERMException"]
        ELSE validated)

\* _TrainingEpochLoop.on_advance_end
on_advance_end(S) ==
    Then([S EXCEPT !.obs.in_advance_end = TRUE], LAMBDA entered :
    Then(IF _should_check_val_fx(entered) THEN _run_validation(entered) ELSE entered, LAMBDA validated :
    Then(update_lr_schedulers(validated, "step", TRUE), LAMBDA plateau :
        IF plateau.exc # "no"
        THEN [plateau EXCEPT !.obs.in_advance_end = FALSE]
        ELSE
        Then(IF ~_should_accumulate(plateau)
             THEN [plateau EXCEPT !.loop._batches_that_stepped = @ + 1]
             ELSE plateau, LAMBDA stepped :
        Then(IF stepped.trainer.should_stop
             THEN [stepped EXCEPT !.obs.logger_saves = @ + 1, !.obs.in_advance_end = FALSE]
             ELSE [stepped EXCEPT !.obs.in_advance_end = FALSE], LAMBDA left :
            IF ~_is_training_done(left) /\ left.trainer.received_sigterm
            THEN [left EXCEPT !.exc = "SIGTERMException"]
            ELSE [left EXCEPT !.obs.sigterm_deferred = left.trainer.received_sigterm])))))

\* _TrainingEpochLoop.reset
reset(S) ==
    IF S.loop.restarting
    THEN [S EXCEPT !.loop.batch_progress = reset_on_restart(@),
                   !.loop.scheduler_progress = reset_on_restart(@),
                   !.loop.optim_progress = optim_reset_on_restart(@)]
    ELSE [S EXCEPT !.loop.batch_progress = batch_reset_on_run(@),
                   !.loop.scheduler_progress = reset_on_run(@),
                   !.loop.optim_progress = optim_reset_on_run(@)]

\* _TrainingEpochLoop.on_run_start
on_run_start(S) ==
    [S EXCEPT !.fetcher = [iter_fetcher(@) EXCEPT !.fetched = @ + S.loop.batch_progress.current.ready]]

(***************************************************************************)
(* Idle values: what a component's variables hold in the specifications    *)
(* that do not exercise it.                                                *)
(***************************************************************************)
IdleFetcher == NewFetcher("DataFetcher", 0, [len |-> 0, infinite |-> FALSE, none |-> {}], FALSE)
IdleLoop == [pc |-> "idle"]
IdleTrainer == [idle |-> TRUE]
IdleObs == [idle |-> TRUE]
IdleCollective == [idle |-> TRUE]
IdleStrategy == [idle |-> TRUE]
IdleClosure == [idle |-> TRUE]

(***************************************************************************)
(* SpecFetcher: a consumer iterating a data fetcher on its own.            *)
(***************************************************************************)
FetcherVariants == {"DataFetcher", "InterBatchParallelismDataFetcher"}

FetcherInit ==
    /\ \E variant \in FetcherVariants, p \in 0..MaxPrefetch, dl \in SizedLoaders :
          data_fetcher = NewFetcher(variant, p, dl, FALSE)
    /\ yielded = << >>
    /\ iterations = 0
    /\ loop = IdleLoop
    /\ trainer = IdleTrainer
    /\ obs = IdleObs
    /\ collective = IdleCollective
    /\ strategy = IdleStrategy
    /\ closure_io = IdleClosure

\* iter(data_fetcher): a new generator over a new iterator of the dataloader
FetcherIter ==
    /\ iterations < MaxIterations
    /\ data_fetcher' = iter_fetcher(data_fetcher)
    /\ yielded' = << >>
    /\ iterations' = iterations + 1
    /\ UNCHANGED <<loop, trainer, obs, collective, strategy, closure_io>>

\* next(generator) hands out a pair; the consumer reads `done` right after
FetcherNext ==
    /\ data_fetcher.gen \in {"start", "loop", "consume"}
    /\ LET r == fetching_function(data_fetcher)
       IN  /\ ~r.stop
           /\ data_fetcher' = r.f
           /\ yielded' = Append(yielded, [batch |-> r.out.batch, is_last |-> r.out.is_last,
                                          done |-> r.f.done, waited |-> r.f.waited,
                                          ahead |-> Len(r.f.batches)])
    /\ UNCHANGED <<iterations, loop, trainer, obs, collective, strategy, closure_io>>

\* next(generator) raises StopIteration: the iteration is over
FetcherStop ==
    /\ data_fetcher.gen \in {"start", "loop", "consume"}
    /\ LET r == fetching_function(data_fetcher)
       IN  /\ r.stop
           /\ data_fetcher' = r.f
    /\ UNCHANGED <<yielded, iterations, loop, trainer, obs, collective, strategy, closure_io>>

FetcherNextStep == FetcherIter \/ FetcherNext \/ FetcherStop

SpecFetcher == FetcherInit /\ [][FetcherNextStep]_vars

(***************************************************************************)
(* SpecClosure: from_training_step_output applied to any step output.      *)
(***************************************************************************)
ClosureInit ==
    /\ \E out \in StepOutputs, k \in 1..MaxAccumulate :
          closure_io = [pc |-> "input", training_step_output |-> out, normalize |-> k]
    /\ data_fetcher = IdleFetcher
    /\ yielded = << >>
    /\ iterations = 0
    /\ loop = IdleLoop
    /\ trainer = IdleTrainer
    /\ obs = IdleObs
    /\ collective = IdleCollective
    /\ strategy = IdleStrategy

Call_from_training_step_output ==
    /\ closure_io.pc = "input"
    /\ closure_io' = [closure_io EXCEPT !.pc = "called"] @@
                     [result |-> from_training_step_output(closure_io.training_step_output,
                                                           closure_io.normalize)]
    /\ UNCHANGED <<data_fetcher, yielded, iterations, loop, trainer, obs, collective, strategy>>

ClosureNextStep == Call_from_training_step_output

SpecClosure == ClosureInit /\ [][ClosureNextStep]_vars

(***************************************************************************)
(* SpecCollective: any sequence of create_group, teardown and group reads. *)
(***************************************************************************)
CollectiveInit ==
    /\ \E inst \in BOOLEAN, ik \in SUBSET KwargKeys :
          collective = NewCollective(inst, ik, {})
    /\ data_fetcher = IdleFetcher
    /\ yielded = << >>
    /\ iterations = 0
    /\ loop = IdleLoop
    /\ trainer = IdleTrainer
    /\ obs = IdleObs
    /\ strategy = IdleStrategy
    /\ closure_io = IdleClosure

\* a call on the collective returned or raised: count it and note a raise
Called(c) ==
    Then(c, LAMBDA d :
        [d EXCEPT !.ops = @ + 1,
                  !.raised_by = IF d.last.raised # "no" THEN @ \cup {d.last.op} ELSE @])

Call_create_group ==
    /\ collective.ops < MaxCollectiveOps
    /\ \E ik \in SUBSET KwargKeys :
          collective' = Called(create_group(collective, ik, {}))
    /\ UNCHANGED <<data_fetcher, yielded, iterations, loop, trainer, obs, strategy, closure_io>>

Call_teardown ==
    /\ collective.ops < MaxCollectiveOps
    /\ collective' = Called(teardown(collective))
    /\ UNCHANGED <<data_fetcher, yielded, iterations, loop, trainer, obs, strategy, closure_io>>

Read_group ==
    /\ collective.ops < MaxCollectiveOps
    /\ collective' = Called(group(collective))
    /\ UNCHANGED <<data_fetcher, yielded, iterations, loop, trainer, obs, strategy, closure_io>>

CollectiveNextStep == Call_create_group \/ Call_teardown \/ Read_group

SpecCollective == CollectiveInit /\ [][CollectiveNextStep]_vars

(***************************************************************************)
(* SpecStrategy: a strategy brought up once or several times.              *)
(***************************************************************************)
Environments(num_nodes, num_processes) ==
    { [kind |-> k, _global_rank |-> g, _world_size |-> w, _local_rank |-> l, _node_rank |-> n] :
        k \in {"LightningEnvironment", "LSFEnvironment"},
        g \in 0..(num_nodes * num_processes - 1), w \in {1, num_nodes * num_processes},
        l \in 0..(num_processes - 1), n \in 0..(num_nodes - 1) }

StrategyInit ==
    /\ \E kind \in {"FSDPStrategy", "DDPPlugin"}, nn \in 1..MaxNodes, np \in 1..MaxProcesses,
          avail \in BOOLEAN, ext \in BOOLEAN :
          \E env \in Environments(nn, np) :
             /\ (env.kind = "LightningEnvironment" => env._global_rank = 0 /\ env._world_size = 1)
             /\ (env.kind = "LSFEnvironment" => env._world_size = nn * np)
             /\ (ext => avail)
             /\ strategy =
                  [ kind |-> kind, num_nodes |-> nn, num_processes |-> np,
                    cluster_environment |-> env,
                    task_idx |-> env._local_rank,
                    ranks |-> [local_rank |-> 0, node_rank |-> 0, global_rank |-> 0, world_size |-> 1],
                    rank_zero_only_rank |-> 0,
                    dist |-> [available |-> avail, initialized |-> ext, init_calls |-> << >>],
                    setup_calls |-> 0,
                    raised |-> "no" ]
    /\ data_fetcher = IdleFetcher
    /\ yielded = << >>
    /\ iterations = 0
    /\ loop = IdleLoop
    /\ trainer = IdleTrainer
    /\ obs = IdleObs
    /\ collective = IdleCollective
    /\ closure_io = IdleClosure

Call_setup_environment ==
    /\ strategy.kind = "FSDPStrategy"
    /\ strategy.setup_calls < MaxSetupCalls
    /\ strategy' = [setup_environment(strategy) EXCEPT !.setup_calls = @ + 1]
    /\ UNCHANGED <<data_fetcher, yielded, iterations, loop, trainer, obs, collective, closure_io>>

Call_pre_training ==
    /\ strategy.kind = "DDPPlugin"
    /\ strategy.setup_calls < MaxSetupCalls
    /\ strategy' = [pre_training(strategy) EXCEPT !.setup_calls = @ + 1]
    /\ UNCHANGED <<data_fetcher, yielded, iterations, loop, trainer, obs, collective, closure_io>>

StrategyNextStep == Call_setup_environment \/ Call_pre_training

SpecStrategy == StrategyInit /\ [][StrategyNextStep]_vars

(***************************************************************************)
(* The epoch loop's run(), one action per handler it calls.  loop.pc is    *)
(* the position of run(): "init" before it, "loop" at its `while not       *)
(* self.done`, "advanced" between advance and on_advance_end, "break"      *)
(* after a StopIteration, "returned" and "raised" when it is over.         *)
(***************************************************************************)
MaxAdvances == 4

\* _TrainingEpochLoop.__init__
NewLoop(min_steps, max_steps) ==
    [ pc |-> "init",
      restarting |-> FALSE,
      min_steps |-> min_steps,
      max_steps |-> max_steps,
      batch_progress |-> NewBatchProgress,
      scheduler_progress |-> NewProgress(StepFields),
      optim_progress |-> NewOptimizationProgress,
      manual_steps |-> 0,            \* manual_loop.optim_step_progress.total.completed
      val_loop |-> [restarting |-> FALSE, done |-> FALSE],
      _batches_that_stepped |-> 0,
      restarts |-> 0,
      raised |-> "no" ]

NewObs ==
    [ advances |-> 0,                \* advance() calls of this run
      fetched |-> << >>,             \* the batches next(data_fetcher) handed to this run
      on_train_batch_start |-> << >>,
      responses |-> << >>,           \* what on_train_batch_start returned, call by call
      trained |-> << >>,             \* the batches given to the optimization loop
      on_train_batch_end |-> << >>,
      closure_calls |-> 0,
      closure_calls_blocked |-> 0,   \* closure calls made inside the sync-blocking scope
      closure_result |-> FALSE,
      steps_in_flight |-> 0,         \* step.ready - step.completed as the closure last ran
      optimizer_step_calls |-> 0,
      grad_log |-> << >>,            \* zero_grad, backward and optimizer step, in order
      backward_losses |-> << >>,       \* the closure losses handed to backward, in order
      backward_of |-> << >>,           \* the training step outputs they were made from
      sync_blocked |-> FALSE,        \* the sync-blocking scope is open
      lr_scheduler_steps |-> << >>,
      val_runs |-> << >>,
      in_advance_end |-> FALSE,
      logger_saves |-> 0,
      restart_returns |-> 0,         \* advance() calls that returned early for a restart
      sigterm_deferred |-> FALSE,    \* on_advance_end saw the termination flag and did not raise
      resumed_at |-> 0,              \* batches completed when the checkpoint was taken
      fetched_before |-> << >> ]     \* the batches handed out before the checkpoint

\* the trainer of a plain fit: automatic optimization, no accumulation, no
\* limits, no validation, no schedulers
DefaultTrainer ==
    [ num_training_batches |-> INF,
      accumulate_grad_batches |-> 1,
      handles_gradient_accumulation |-> FALSE,
      automatic_optimization |-> TRUE,
      manual_steps_per_batch |-> 1,
      optimizer_closure_calls |-> 1,
      step_has_batch_idx |-> TRUE,
      stop_at |-> 0,                 \* the batch for which on_train_batch_start returns -1
      early_stop_at |-> 0,           \* the batch whose on_train_batch_end requests an early stop
      step_outputs |-> {Tensor(1, 1)},
      should_stop |-> FALSE,
      received_sigterm |-> FALSE,
      met_min_epochs |-> TRUE,
      enable_validation |-> FALSE,
      check_val_every_n_epoch |-> 1,
      current_epoch |-> 0,
      val_check_batch |-> INF,
      limit_train_batches |-> None,
      lr_scheduler_configs |-> << >>,
      callback_metrics |-> {} ]      \* the keys of the metrics logged so far

InfiniteLoaders == { [len |-> 0, infinite |-> TRUE, none |-> s] : s \in SUBSET (1..MaxBatches) }

\* trainer.num_training_batches for a dataloader: its length, or inf when it has none
NumTrainingBatches(dl) == IF dl.infinite THEN {INF} ELSE IF dl.len = 0 THEN {INF} ELSE {dl.len, INF}

LoopBundle == Bundle(loop, trainer, data_fetcher, obs)

Commit(S, pc) ==
    /\ loop' = [S.loop EXCEPT !.pc = pc, !.raised = S.exc]
    /\ trainer' = S.trainer
    /\ data_fetcher' = S.fetcher
    /\ obs' = S.obs

\* run(): reset() and on_run_start()
Run_start ==
    /\ loop.pc = "init"
    /\ \E S \in {on_run_start(reset(LoopBundle))} : Commit(S, "loop")
    /\ UNCHANGED <<yielded, iterations, collective, strategy, closure_io>>

\* what on_train_batch_start returns for the batch the fetcher will hand out
Response(S) == IF S.trainer.stop_at # 0 /\ batch_idx(S) + 2 = S.trainer.stop_at THEN -1 ELSE None

\* run() whose loop goes on after advance() raised StopIteration
Advance_swallows_StopIteration ==
    /\ loop.pc = "loop"
    /\ ~done(LoopBundle)
    /\ obs.advances < MaxAdvances
    /\ \E out \in trainer.step_outputs :
          \E S \in {advance(LoopBundle, Response(LoopBundle), out)} :
             Commit([S EXCEPT !.obs.advances = @ + 1, !.exc = "no"], "advanced")
    /\ UNCHANGED <<yielded, iterations, collective, strategy, closure_io>>

\* run(): `while not self.done`, then advance()
Advance ==
    /\ loop.pc = "loop"
    /\ ~done(LoopBundle)
    /\ obs.advances < MaxAdvances
    /\ \E out \in trainer.step_outputs :
          \E S \in {advance(LoopBundle, Response(LoopBundle), out)} :
             Commit([S EXCEPT !.obs.advances = @ + 1],
                    CASE S.exc = "no" -> "advanced"
                      [] S.exc = "StopIteration" -> "break"
                      [] OTHER -> "raised")
    /\ UNCHANGED <<yielded, iterations, collective, strategy, closure_io>>

\* run() that leaves the restarting flag set after on_advance_end()
On_advance_end_keeps_restarting ==
    /\ loop.pc = "advanced"
    /\ \E S \in {on_advance_end(LoopBundle)} :
          Commit(S, IF S.exc = "no" THEN "loop" ELSE "raised")
    /\ UNCHANGED <<yielded, iterations, collective, strategy, closure_io>>

\* run(): on_advance_end(), then `self._restarting = False`
On_advance_end ==
    /\ loop.pc = "advanced"
    /\ \E S \in {on_advance_end(LoopBundle)} :
          IF S.exc = "no"
          THEN Commit([S EXCEPT !.loop.restarting = FALSE], "loop")
          ELSE Commit(S, "raised")
    /\ UNCHANGED <<yielded, iterations, collective, strategy, closure_io>>

\* run(): the loop is left (done, or the break on StopIteration); on_run_end()
Run_end ==
    /\ \/ loop.pc = "loop" /\ done(LoopBundle)
       \/ loop.pc = "break"
    /\ loop' = [loop EXCEPT !.pc = "returned", !.restarting = FALSE, !.raised = "no"]
    /\ UNCHANGED <<trainer, data_fetcher, obs, yielded, iterations, collective, strategy, closure_io>>

LoopIdle ==
    /\ yielded = << >>
    /\ iterations = 0
    /\ collective = IdleCollective
    /\ strategy = IdleStrategy
    /\ closure_io = IdleClosure

(***************************************************************************)
(* SpecLoop: one epoch over any dataloader, None batches and an            *)
(* on_train_batch_start that may return -1 included.                       *)
(***************************************************************************)
LoopInit ==
    /\ \E dl \in SizedLoaders \cup InfiniteLoaders, p \in 0..MaxPrefetch,
          k \in 1..MaxAccumulate, stop \in 0..MaxBatches,
          m \in {NoLimit} \cup (1..MaxSteps) :
          \E n \in NumTrainingBatches(dl) :
             /\ data_fetcher = NewFetcher("DataFetcher", p, dl, FALSE)
             /\ trainer = [DefaultTrainer EXCEPT !.num_training_batches = n,
                                                 !.accumulate_grad_batches = k,
                                                 !.stop_at = stop]
             /\ loop = NewLoop(None, m)
    /\ obs = NewObs
    /\ LoopIdle

LoopNextStep == Run_start \/ Advance \/ On_advance_end \/ Run_end

SpecLoop == LoopInit /\ [][LoopNextStep]_vars

(***************************************************************************)
(* SpecLoopOptim: one epoch of automatic optimization over non-None        *)
(* batches, for any accumulation factor, with or without a strategy that   *)
(* handles accumulation itself, an optimizer that calls the closure any    *)
(* number of times and training steps that return a loss, None or an       *)
(* output that is no loss.                                                 *)
(***************************************************************************)
StepOutputSets ==
    { {Tensor(1, 1)}, {Tensor(1, 1), PyNone}, {Tensor(1, 1), PyFloat}, {Tensor(1, 1), Tensor(MaxLoss, 1)} }

LoopOptimInit ==
    /\ \E len \in 1..MaxBatches, k \in 1..MaxAccumulate, hga \in BOOLEAN,
          calls \in 0..MaxClosureCalls, has_idx \in BOOLEAN, outs \in StepOutputSets :
             /\ data_fetcher = NewFetcher("DataFetcher", 0,
                                          [len |-> len, infinite |-> FALSE, none |-> {}], FALSE)
             /\ trainer = [DefaultTrainer EXCEPT !.num_training_batches = len,
                                                 !.accumulate_grad_batches = k,
                                                 !.handles_gradient_accumulation = hga,
                                                 !.optimizer_closure_calls = calls,
                                                 !.step_has_batch_idx = has_idx,
                                                 !.step_outputs = outs]
             /\ loop = NewLoop(None, NoLimit)
    /\ obs = NewObs
    /\ LoopIdle

SpecLoopOptim == LoopOptimInit /\ [][LoopNextStep]_vars

(***************************************************************************)
(* SpecLoopResume: an epoch that is checkpointed between two batches and   *)
(* resumed by a loop restored from the checkpoint, over the same           *)
(* dataloader.                                                             *)
(***************************************************************************)
\* The progress trackers come back from the checkpoint with the loop marked
\* as restarting; the data fetcher is set up anew on the same dataloader, and
\* a fault-tolerant run restores the iterator state the fetcher had stored.
Resume_from_checkpoint ==
    /\ loop.pc = "loop"
    /\ loop.restarts < MaxRestarts
    /\ loop.batch_progress.current.completed > 0
    /\ ~done(LoopBundle)
    /\ loop' = [loop EXCEPT !.pc = "init", !.restarting = TRUE, !.restarts = @ + 1]
    /\ data_fetcher' =
          [NewFetcher(data_fetcher.variant, data_fetcher.prefetch_batches - 1,
                      data_fetcher.dataloader, data_fetcher.fault_tolerant)
             EXCEPT !.start_pos = IF data_fetcher.fault_tolerant THEN data_fetcher.iter_state ELSE 0]
    /\ obs' = [NewObs EXCEPT !.resumed_at = loop.batch_progress.current.completed,
                             !.fetched_before = obs.fetched]
    /\ UNCHANGED <<trainer, yielded, iterations, collective, strategy, closure_io>>

LoopResumeInit ==
    /\ \E len \in 2..MaxBatches, p \in 0..MaxPrefetch, ft \in BOOLEAN, k \in 1..MaxAccumulate :
             /\ data_fetcher = NewFetcher("DataFetcher", p,
                                          [len |-> len, infinite |-> FALSE, none |-> {}], ft)
             /\ trainer = [DefaultTrainer EXCEPT !.num_training_batches = len,
                                                 !.accumulate_grad_batches = k]
             /\ loop = NewLoop(None, NoLimit)
    /\ obs = NewObs
    /\ LoopIdle

LoopResumeNextStep == Run_start \/ Advance \/ On_advance_end \/ Run_end \/ Resume_from_checkpoint

SpecLoopResume == LoopResumeInit /\ [][LoopResumeNextStep]_vars

(***************************************************************************)
(* SpecLoopResumeVal: the checkpointed and resumed epoch of SpecLoopResume *)
(* in a fit with validation every val_check_batch batches, so that a       *)
(* checkpoint may be taken at a batch for which validation is due.         *)
(***************************************************************************)
LoopResumeValInit ==
    /\ \E len \in 2..MaxBatches, p \in 0..MaxPrefetch, ft \in BOOLEAN,
          k \in 1..MaxAccumulate, vcb \in 1..MaxBatches :
             /\ data_fetcher = NewFetcher("DataFetcher", p,
                                          [len |-> len, infinite |-> FALSE, none |-> {}], ft)
             /\ trainer = [DefaultTrainer EXCEPT !.num_training_batches = len,
                                                 !.accumulate_grad_batches = k,
                                                 !.enable_validation = TRUE,
                                                 !.val_check_batch = vcb]
             /\ loop = NewLoop(None, NoLimit)
    /\ obs = NewObs
    /\ LoopIdle

SpecLoopResumeVal == LoopResumeValInit /\ [][LoopResumeNextStep]_vars

(***************************************************************************)
(* SpecLoopTerminates: run() over any finite dataloader, None elements     *)
(* included, under any step limits, a callback that may request a stop,    *)
(* validation, and a checkpoint and restart between two batches.  run() is *)
(* sequential code: once reset(), advance(), on_advance_end() or the       *)
(* return is the next statement, it is executed, which is the weak         *)
(* fairness of the four steps of run().  Nothing makes a restart happen.   *)
(* The dataloaders are one batch shorter than MaxBatches so that a run     *)
(* stays below the MaxAdvances calls the model allows: a restart's early   *)
(* return, one call per batch and the call that ends the iteration.        *)
(***************************************************************************)
ShortLoaders == { d \in SizedLoaders : d.len < MaxBatches }

LoopTerminatesInit ==
    /\ \E dl \in ShortLoaders, p \in {0, MaxPrefetch}, k \in {1, MaxAccumulate},
          m \in {NoLimit, 1}, mn \in {None, MaxSteps}, me \in BOOLEAN,
          at \in {0, 1}, vcb \in {1, INF} :
          \E n \in NumTrainingBatches(dl) :
             /\ data_fetcher = NewFetcher("DataFetcher", p, dl, FALSE)
             /\ trainer = [DefaultTrainer EXCEPT !.num_training_batches = n,
                                                 !.accumulate_grad_batches = k,
                                                 !.enable_validation = TRUE,
                                                 !.val_check_batch = vcb,
                                                 !.early_stop_at = at,
                                                 !.met_min_epochs = me]
             /\ loop = NewLoop(mn, m)
    /\ obs = NewObs
    /\ LoopIdle

SpecLoopTerminates ==
    /\ LoopTerminatesInit
    /\ [][LoopResumeNextStep]_vars
    /\ WF_vars(Run_start) /\ WF_vars(Advance) /\ WF_vars(On_advance_end) /\ WF_vars(Run_end)

(***************************************************************************)
(* SpecLoopStop: one epoch in which a callback may request an early stop   *)
(* at the end of some batch, for any min_steps, max_steps and accumulation *)
(* factor, in a fit whose min_epochs are met or not.                       *)
(***************************************************************************)
PlainLoaders ==
    { [len |-> n, infinite |-> FALSE, none |-> {}] : n \in 1..MaxBatches }
    \cup { [len |-> 0, infinite |-> TRUE, none |-> {}] }

LoopStopInit ==
    /\ \E dl \in PlainLoaders, p \in 0..MaxPrefetch, k \in 1..MaxAccumulate,
          at \in 0..MaxBatches, mn \in {None} \cup (1..MaxSteps), me \in BOOLEAN,
          m \in {NoLimit} \cup (1..MaxSteps) :
          \E n \in NumTrainingBatches(dl) :
             /\ data_fetcher = NewFetcher("DataFetcher", p, dl, FALSE)
             /\ trainer = [DefaultTrainer EXCEPT !.num_training_batches = n,
                                                 !.accumulate_grad_batches = k,
                                                 !.early_stop_at = at,
                                                 !.met_min_epochs = me]
             /\ loop = NewLoop(mn, m)
    /\ obs = NewObs
    /\ LoopIdle

SpecLoopStop == LoopStopInit /\ [][LoopNextStep]_vars

(***************************************************************************)
(* SpecLoopSigterm: one epoch during which the process may receive a       *)
(* termination signal at any moment, with or without validation            *)
(* interleaved and a max_steps limit.                                      *)
(***************************************************************************)
\* the signal handler sets the trainer's flag; the loop only reads it
Receive_sigterm ==
    /\ loop.pc \in {"init", "loop", "advanced"}
    /\ ~trainer.received_sigterm
    /\ trainer' = [trainer EXCEPT !.received_sigterm = TRUE]
    /\ UNCHANGED <<loop, data_fetcher, obs, yielded, iterations, collective, strategy, closure_io>>

LoopSigtermInit ==
    /\ \E dl \in PlainLoaders, p \in 0..MaxPrefetch, k \in 1..MaxAccumulate,
          m \in {NoLimit} \cup (1..MaxSteps), ev \in BOOLEAN,
          vcb \in {INF} \cup (1..MaxBatches) :
          \E n \in NumTrainingBatches(dl) :
             /\ data_fetcher = NewFetcher("DataFetcher", p, dl, FALSE)
             /\ trainer = [DefaultTrainer EXCEPT !.num_training_batches = n,
                                                 !.accumulate_grad_batches = k,
                                                 !.enable_validation = ev,
                                                 !.val_check_batch = vcb]
             /\ loop = NewLoop(None, m)
    /\ obs = NewObs
    /\ LoopIdle

LoopSigtermNextStep == Run_start \/ Advance \/ On_advance_end \/ Run_end \/ Receive_sigterm

SpecLoopSigterm == LoopSigtermInit /\ [][LoopSigtermNextStep]_vars

(***************************************************************************)
(* SpecLoopVal: one epoch of a fit with validation interleaved, the first  *)
(* epoch or a later one (the loop object then carries the totals of the    *)
(* batches of the epochs before), with or without a callback requesting an *)
(* early stop.                                                             *)
(***************************************************************************)
\* the loop after earlier epochs that trained `before` batches in all
LoopAfterEpochs(lp, before) ==
    [lp EXCEPT !.batch_progress.total = [k \in BatchFields |-> before],
               !.optim_progress.step.total = [k \in StepFields |-> before],
               !.optim_progress.zero_grad.total = [k \in ZeroGradFields |-> before],
               !._batches_that_stepped = before]

LoopValInit ==
    /\ \E dl \in PlainLoaders, p \in {0, MaxPrefetch}, ev \in BOOLEAN,
          every \in {None} \cup (1..MaxIterations), epoch \in {0, 1},
          before \in 0..MaxBatches, vcb \in {INF} \cup (1..MaxBatches),
          at \in {0, 1}, me \in BOOLEAN :
          \E n \in NumTrainingBatches(dl) :
             /\ (epoch = 0) = (before = 0)
             /\ data_fetcher = NewFetcher("DataFetcher", p, dl, FALSE)
             /\ trainer = [DefaultTrainer EXCEPT !.num_training_batches = n,
                                                 !.enable_validation = ev,
                                                 !.check_val_every_n_epoch = every,
                                                 !.current_epoch = epoch,
                                                 !.val_check_batch = vcb,
                                                 !.early_stop_at = at,
                                                 !.met_min_epochs = me]
             /\ loop = LoopAfterEpochs(NewLoop(None, NoLimit), before)
    /\ obs = NewObs
    /\ LoopIdle

SpecLoopVal == LoopValInit /\ [][LoopNextStep]_vars

(***************************************************************************)
(* SpecLoopSched: one epoch with learning-rate schedulers configured, one  *)
(* or two of them, plateau or not, stepping per batch or per epoch, with    *)
(* validation after every batch and the monitored metrics logged or not.   *)
(***************************************************************************)
MaxFrequency == 2

\* trainer.lr_scheduler_configs entries (LRSchedulerConfig)
PlainSchedulerConfigs ==
    { [interval |-> iv, frequency |-> fr, reduce_on_plateau |-> FALSE, strict |-> TRUE, monitor |-> "none"] :
        iv \in {"step", "epoch"}, fr \in 1..MaxFrequency }

PlateauSchedulerConfigs ==
    { [interval |-> iv, frequency |-> fr, reduce_on_plateau |-> TRUE, strict |-> st, monitor |-> mo] :
        iv \in {"step", "epoch"}, fr \in 1..MaxFrequency, st \in BOOLEAN, mo \in {"val_loss", "val_acc"} }

SchedulerConfigLists ==
    { <<a>> : a \in PlainSchedulerConfigs \cup PlateauSchedulerConfigs }
    \cup { <<a, b>> : a \in PlateauSchedulerConfigs, b \in PlainSchedulerConfigs \cup PlateauSchedulerConfigs }

LoopSchedInit ==
    /\ \E len \in 1..MaxBatches, k \in 1..MaxAccumulate, configs \in SchedulerConfigLists,
          metrics \in {{}, {"val_loss"}} :
             /\ data_fetcher = NewFetcher("DataFetcher", 0,
                                          [len |-> len, infinite |-> FALSE, none |-> {}], FALSE)
             /\ trainer = [DefaultTrainer EXCEPT !.num_training_batches = len,
                                                 !.accumulate_grad_batches = k,
                                                 !.enable_validation = TRUE,
                                                 !.val_check_batch = 1,
                                                 !.lr_scheduler_configs = configs,
                                                 !.callback_metrics = metrics]
             /\ loop = NewLoop(None, NoLimit)
    /\ obs = NewObs
    /\ LoopIdle

SpecLoopSched == LoopSchedInit /\ [][LoopNextStep]_vars

(***************************************************************************)
(* setup_optimizer of the FSDP-family strategies: FSDPStrategy             *)
(* (lightning_lite/strategies/fsdp.py) and XLAFSDPStrategy                 *)
(* (lightning/fabric/strategies/xla_fsdp.py).  An optimizer is its list of *)
(* param_groups; a param group is a dict with the list of its parameters   *)
(* under "params" and a hyperparameter under "lr".  A parameter is either  *)
(* a FlatParameter (what the wrapped module of setup_module exposes) or a  *)
(* plain Parameter (what the module had before it was wrapped).  Python    *)
(* values carry their type, as isinstance reads it.                        *)
(***************************************************************************)
MaxGroups == 2
MaxParams == 2

\* FSDPStrategy.setup_optimizer: the result, returned or raised
setup_optimizer(optimizer) ==
    IF Len(optimizer.param_groups) > 1
    THEN [raised |-> "ValueError", message |-> "multiple param groups"]
    ELSE LET values == { optimizer.param_groups[1][key] : key \in DOMAIN optimizer.param_groups[1] }
         IN  IF \E param \in values : param.type = "FlatParameter"
             THEN [raised |-> "no", value |-> optimizer]
             ELSE [raised |-> "ValueError", message |-> "no flat FSDP parameters"]

\* XLAFSDPStrategy.setup_optimizer
xla_setup_optimizer(optimizer, _TORCH_GREATER_EQUAL_2_0) ==
    IF _TORCH_GREATER_EQUAL_2_0
    THEN [raised |-> "no", value |-> optimizer]
    ELSE IF Len(optimizer.param_groups) > 1
    THEN [raised |-> "ValueError", message |-> "multiple param groups"]
    ELSE LET params == optimizer.param_groups[1]["params"].items
         IN  IF \E i \in 1..Len(params) : params[i].type = "FlatParameter"
             THEN [raised |-> "no", value |-> optimizer]
             ELSE [raised |-> "ValueError", message |-> "no XLA FSDP parameters"]

(***************************************************************************)
(* SpecSetupOptimizer: a strategy of the FSDP family is handed optimizers  *)
(* with 1..MaxGroups param groups of 1..MaxParams parameters each.         *)
(***************************************************************************)
SetupOptimizerInit ==
    /\ \E kind \in {"FSDPStrategy", "XLAFSDPStrategy"}, ge2 \in BOOLEAN :
          /\ kind = "FSDPStrategy" => ~ge2
          /\ strategy = [kind |-> kind, _TORCH_GREATER_EQUAL_2_0 |-> ge2,
                         optimizer |-> None, result |-> [raised |-> "not called"]]
    /\ data_fetcher = IdleFetcher
    /\ yielded = << >>
    /\ iterations = 0
    /\ loop = IdleLoop
    /\ trainer = IdleTrainer
    /\ obs = IdleObs
    /\ collective = IdleCollective
    /\ closure_io = IdleClosure

Call_setup_optimizer ==
    /\ strategy.result.raised = "not called"
    /\ \E n \in 1..MaxGroups :
       \E lens \in [1..n -> 1..MaxParams] :
       \E kinds \in [1..n -> [1..MaxParams -> {"FlatParameter", "Parameter"}]] :
          LET optimizer ==
                [param_groups |->
                    [g \in 1..n |->
                        [params |-> [type |-> "list",
                                     items |-> [i \in 1..lens[g] |-> [type |-> kinds[g][i]]]],
                         lr |-> [type |-> "float"]]]]
          IN  /\ \A g \in 1..n : \A i \in (lens[g] + 1)..MaxParams : kinds[g][i] = "Parameter"
              /\ strategy' =
                    [strategy EXCEPT
                       !.optimizer = optimizer,
                       !.result = IF strategy.kind = "FSDPStrategy"
                                  THEN setup_optimizer(optimizer)
                                  ELSE xla_setup_optimizer(optimizer, strategy._TORCH_GREATER_EQUAL_2_0)]
    /\ UNCHANGED <<data_fetcher, yielded, iterations, loop, trainer, obs, collective, closure_io>>

SpecSetupOptimizer == SetupOptimizerInit /\ [][Call_setup_optimizer]_vars

(***************************************************************************)
(* DDPPlugin.setup (pytorch_lightning/plugins/training_type/ddp.py): the   *)
(* root process starts its sibling processes.  os.environ is a function    *)
(* from the names that are set to their values; a started process is the   *)
(* environment Popen was given.  The parent class ParallelPlugin is not    *)
(* part of the sources: global_rank is 0 from construction until           *)
(* set_world_ranks runs.                                                   *)
(***************************************************************************)
\* os.environ.get(key, default)
environ_get(environ, key, default) ==
    IF key \in DOMAIN environ THEN environ[key] ELSE default

\* os.environ[key] = value
environ_set(environ, key, value) ==
    [k \in DOMAIN environ \cup {key} |-> IF k = key THEN value ELSE environ[k]]

\* DDPPlugin.__init__
NewDDPPlugin(num_processes, num_nodes, environ, env_local_rank) ==
    [ kind                  |-> "DDPPlugin",
      num_processes         |-> num_processes,   \* len(parallel_devices)
      num_nodes             |-> num_nodes,
      interactive_ddp_procs |-> << >>,
      _has_spawned_children |-> FALSE,
      task_idx              |-> None,
      global_rank           |-> 0,
      env_local_rank        |-> env_local_rank,  \* what cluster_environment.local_rank() answers
      environ               |-> environ,         \* os.environ of this process
      popen                 |-> << >>,           \* every process started, in order
      setups                |-> 0,
      raised                |-> "no" ]

\* DDPPlugin.lightning_module: the property body is `pass`
lightning_module(st) == None

\* DDPPlugin._call_children_scripts
_call_children_scripts(st, free_port) ==
    IF st.global_rank # 0
    THEN [st EXCEPT !.raised = "AssertionError"]
    ELSE IF st._has_spawned_children                  \* _check_can_spawn_children
    THEN [st EXCEPT !.raised = "RuntimeError"]
    ELSE
    LET e1 == environ_set(st.environ, "MASTER_ADDR", environ_get(st.environ, "MASTER_ADDR", "127.0.0.1"))
        e2 == environ_set(e1, "MASTER_PORT", environ_get(e1, "MASTER_PORT", free_port))
        node_rank == environ_get(e2, "GROUP_RANK", environ_get(e2, "NODE_RANK", "0"))
        e3 == environ_set(e2, "NODE_RANK", node_rank)
        e4 == environ_set(e3, "LOCAL_RANK", "0")
        e5 == environ_set(e4, "PL_TRAINER_GPUS", [i \in 1..st.num_processes |-> ToString(i - 1)])
        e6 == environ_set(e5, "PL_IN_DDP_SUBPROCESS", "1")
        marked == [st EXCEPT !._has_spawned_children = TRUE, !.environ = e6]
    IN  IF lightning_module(marked) = None
        THEN [marked EXCEPT !.raised = "AttributeError"]   \* None has no attribute logger
        ELSE LET e7 == environ_set(e6, "WORLD_SIZE", ToString(st.num_processes * st.num_nodes))
                 procs == [i \in 1..(st.num_processes - 1) |->
                              environ_set(e7, "LOCAL_RANK", ToString(i))]
             IN  [marked EXCEPT !.environ = e7,
                                !.interactive_ddp_procs = procs,
                                !.popen = @ \o procs]

\* DDPPlugin.setup
setup(st, free_port) ==
    LET called == IF environ_get(st.environ, "PL_IN_DDP_SUBPROCESS", "0") # "1"
                  THEN _call_children_scripts([st EXCEPT !.raised = "no"], free_port)
                  ELSE [st EXCEPT !.raised = "no"]
    IN  IF called.raised # "no"
        THEN called
        ELSE [called EXCEPT !.task_idx = called.env_local_rank]

(***************************************************************************)
(* SpecDDPSetup: setup() is called up to MaxSetupCalls times on one        *)
(* DDPPlugin, in a process started with any of the variables the plugin    *)
(* reads set or unset.                                                     *)
(***************************************************************************)
DDPSetupInit ==
    /\ \E np \in 1..MaxProcesses, nn \in 1..MaxNodes,
          marker \in {"unset", "0", "1"},
          given \in SUBSET {"MASTER_ADDR", "MASTER_PORT", "NODE_RANK", "GROUP_RANK"} :
          LET preset == [k \in given |->
                            CASE k = "MASTER_ADDR" -> "10.0.0.1"
                              [] k = "MASTER_PORT" -> "29500"
                              [] k = "NODE_RANK"   -> "1"
                              [] k = "GROUP_RANK"  -> "0"]
              environ == IF marker = "unset" THEN preset
                         ELSE environ_set(preset, "PL_IN_DDP_SUBPROCESS", marker)
          IN  strategy = NewDDPPlugin(np, nn, environ, 0)
    /\ data_fetcher = IdleFetcher
    /\ yielded = << >>
    /\ iterations = 0
    /\ loop = IdleLoop
    /\ trainer = IdleTrainer
    /\ obs = IdleObs
    /\ collective = IdleCollective
    /\ closure_io = IdleClosure

Call_setup ==
    /\ strategy.setups < MaxSetupCalls
    /\ \E free_port \in {"50001", "50002"} :
          strategy' = [setup(strategy, free_port) EXCEPT !.setups = @ + 1]
    /\ UNCHANGED <<data_fetcher, yielded, iterations, loop, trainer, obs, collective, closure_io>>

SpecDDPSetup == DDPSetupInit /\ [][Call_setup]_vars

(***************************************************************************)
(* LSFEnvironment (pytorch_lightning/plugins/environments/                 *)
(* lsf_environment.py).  The process has its os.environ, its hostname and  *)
(* the rank file LSB_DJOB_RANKFILE names (its lines, in order).  Values of *)
(* environment variables are strings; int() parses a decimal numeral.      *)
(***************************************************************************)
\* int(s) for the numerals "0".."9"
int(s) == CHOOSE n \in 0..9 : ToString(n) = s

\* _get_global_rank that falls back to rank 0
_get_global_rank_defaults_to_zero(environ) ==
    IF "JSM_NAMESPACE_RANK" \notin DOMAIN environ
    THEN [raised |-> "no", value |-> 0]
    ELSE [raised |-> "no", value |-> int(environ["JSM_NAMESPACE_RANK"])]

\* LSFEnvironment._get_global_rank
_get_global_rank(environ) ==
    IF "JSM_NAMESPACE_RANK" \notin DOMAIN environ
    THEN [raised |-> "ValueError", names |-> "JSM_NAMESPACE_RANK"]
    ELSE [raised |-> "no", value |-> int(environ["JSM_NAMESPACE_RANK"])]

\* LSFEnvironment.__init__ with the helpers it calls, in the order it calls
\* them: the environment object and os.environ afterwards, or what it raised
LSFEnvironment(environ, rankfile, hostname) ==
    LET _read_hosts ==
            IF "LSB_DJOB_RANKFILE" \notin DOMAIN environ
            THEN [raised |-> "ValueError", names |-> "LSB_DJOB_RANKFILE"]
            ELSE IF environ["LSB_DJOB_RANKFILE"] = ""
            THEN [raised |-> "ValueError", names |-> "LSB_DJOB_RANKFILE"]
            ELSE [raised |-> "no", value |-> rankfile]
        _get_main_address ==
            IF _read_hosts.raised # "no" THEN _read_hosts
            ELSE IF Len(_read_hosts.value) < 2 THEN [raised |-> "IndexError", names |-> ""]
            ELSE [raised |-> "no", value |-> _read_hosts.value[2]]
        port == environ_get(environ, "MASTER_PORT", "")
        jobid == environ_get(environ, "LSB_JOBID", "")
        _get_main_port ==
            IF port # "" THEN [raised |-> "no", value |-> [type |-> "str", v |-> port]]
            ELSE IF jobid = "" THEN [raised |-> "ValueError", names |-> "LSB_JOBID"]
            ELSE [raised |-> "no", value |-> [type |-> "int", v |-> (int(jobid) % 1000) + 10000]]
        _get_local_rank ==
            IF "JSM_NAMESPACE_LOCAL_RANK" \notin DOMAIN environ
            THEN [raised |-> "ValueError", names |-> "JSM_NAMESPACE_LOCAL_RANK"]
            ELSE [raised |-> "no", value |-> int(environ["JSM_NAMESPACE_LOCAL_RANK"])]
        _get_world_size ==
            IF "JSM_NAMESPACE_SIZE" \notin DOMAIN environ
            THEN [raised |-> "ValueError", names |-> "JSM_NAMESPACE_SIZE"]
            ELSE [raised |-> "no", value |-> int(environ["JSM_NAMESPACE_SIZE"])]
        \* the hosts that are neither batch nor login nodes, numbered by first occurrence
        hosts == SelectSeq(rankfile, LAMBDA host : host \notin {"batch1", "login1"})
        _get_node_rank ==
            IF \A i \in 1..Len(hosts) : hosts[i] # hostname
            THEN [raised |-> "KeyError", names |-> ""]
            ELSE [raised |-> "no",
                  value |-> Cardinality({ hosts[j] : j \in 1..((CHOOSE i \in 1..Len(hosts) :
                                /\ hosts[i] = hostname
                                /\ \A k \in 1..(i - 1) : hosts[k] # hostname) - 1) })]
        global == _get_global_rank(environ)
        \* str(self._main_port)
        str_main_port == IF _get_main_port.value.type = "int"
                         THEN ToString(_get_main_port.value.v)
                         ELSE _get_main_port.value.v
    IN  IF _get_main_address.raised # "no" THEN _get_main_address
        ELSE IF _get_main_port.raised # "no" THEN _get_main_port
        ELSE IF _get_local_rank.raised # "no" THEN _get_local_rank
        ELSE IF global.raised # "no" THEN global
        ELSE IF _get_world_size.raised # "no" THEN _get_world_size
        ELSE IF _get_node_rank.raised # "no" THEN _get_node_rank
        ELSE [raised |-> "no",
              value |-> [kind          |-> "LSFEnvironment",
                         _main_address |-> _get_main_address.value,
                         _main_port    |-> _get_main_port.value,
                         _local_rank   |-> _get_local_rank.value,
                         _global_rank  |-> global.value,
                         _world_size   |-> _get_world_size.value,
                         _node_rank    |-> _get_node_rank.value],
              environ |-> environ_set(environ_set(environ, "MASTER_ADDR", _get_main_address.value),
                                      "MASTER_PORT", str_main_port)]

\* LSFEnvironment.detect
detect(environ) ==
    \E v \in {"LSB_JOBID", "LSB_DJOB_RANKFILE", "JSM_NAMESPACE_LOCAL_RANK", "JSM_NAMESPACE_SIZE"} :
        v \in DOMAIN environ

(***************************************************************************)
(* SpecLSF: a process with any subset of the LSF variables set calls       *)
(* detect(), constructs an LSFEnvironment and calls the setters on it.     *)
(***************************************************************************)
LSFVariables ==
    {"LSB_JOBID", "LSB_DJOB_RANKFILE", "JSM_NAMESPACE_LOCAL_RANK", "JSM_NAMESPACE_SIZE",
     "JSM_NAMESPACE_RANK"}

LSFInit ==
    /\ \E given \in SUBSET (LSFVariables \cup {"MASTER_PORT"}),
          empty \in SUBSET {"LSB_DJOB_RANKFILE"},
          rankfile \in { <<"batch1", "node1", "node1", "node2", "node2">>, <<"login1", "node2">> },
          hostname \in {"node1", "node2"} :
          /\ empty \subseteq given
          /\ strategy =
                [kind     |-> "LSF process",
                 environ  |-> [k \in given |->
                                 CASE k \in empty -> ""
                                   [] k = "LSB_JOBID" -> "7"
                                   [] k = "LSB_DJOB_RANKFILE" -> "/tmp/rankfile"
                                   [] k = "JSM_NAMESPACE_LOCAL_RANK" -> "1"
                                   [] k = "JSM_NAMESPACE_SIZE" -> "4"
                                   [] k = "JSM_NAMESPACE_RANK" -> "3"
                                   [] k = "MASTER_PORT" -> "29500"],
                 rankfile |-> rankfile,
                 hostname |-> hostname,
                 env      |-> [kind |-> "none"],
                 made     |-> [raised |-> "not called"],
                 detected |-> "not called",
                 sets     |-> 0,
                 last     |-> [op |-> "none"]]
    /\ data_fetcher = IdleFetcher
    /\ yielded = << >>
    /\ iterations = 0
    /\ loop = IdleLoop
    /\ trainer = IdleTrainer
    /\ obs = IdleObs
    /\ collective = IdleCollective
    /\ closure_io = IdleClosure

Call_detect ==
    /\ strategy.detected = "not called"
    /\ strategy.made.raised = "not called"
    /\ strategy' = [strategy EXCEPT !.detected = IF detect(strategy.environ) THEN "True" ELSE "False"]
    /\ UNCHANGED <<data_fetcher, yielded, iterations, loop, trainer, obs, collective, closure_io>>

Call_LSFEnvironment ==
    /\ strategy.made.raised = "not called"
    /\ \E made \in {LSFEnvironment(strategy.environ, strategy.rankfile, strategy.hostname)} :
          strategy' = IF made.raised = "no"
                      THEN [strategy EXCEPT !.made = [raised |-> "no"], !.env = made.value,
                                            !.environ = made.environ]
                      ELSE [strategy EXCEPT !.made = made]
    /\ UNCHANGED <<data_fetcher, yielded, iterations, loop, trainer, obs, collective, closure_io>>

Call_set_world_size ==
    /\ strategy.env.kind = "LSFEnvironment"
    /\ strategy.sets < MaxSetupCalls
    /\ \E size \in 1..(MaxNodes * MaxProcesses) :
          strategy' = [strategy EXCEPT !.env = set_world_size(@, size), !.sets = @ + 1,
                                       !.last = [op |-> "set_world_size", arg |-> size]]
    /\ UNCHANGED <<data_fetcher, yielded, iterations, loop, trainer, obs, collective, closure_io>>

Call_set_global_rank ==
    /\ strategy.env.kind = "LSFEnvironment"
    /\ strategy.sets < MaxSetupCalls
    /\ \E rank \in 0..(MaxNodes * MaxProcesses - 1) :
          strategy' = [strategy EXCEPT !.env = set_global_rank(@, rank), !.sets = @ + 1,
                                       !.last = [op |-> "set_global_rank", arg |-> rank]]
    /\ UNCHANGED <<data_fetcher, yielded, iterations, loop, trainer, obs, collective, closure_io>>

LSFNextStep ==
    Call_detect \/ Call_LSFEnvironment \/ Call_set_world_size \/ Call_set_global_rank

SpecLSF == LSFInit /\ [][LSFNextStep]_vars

(***************************************************************************)
(* DeepSpeedStrategy.save_checkpoint (lightning/fabric/strategies/         *)
(* deepspeed.py).  A state is a dict from keys to objects: the DeepSpeed   *)
(* engine, an optimizer, or a plain value.  The engine's own               *)
(* save_checkpoint is the backend: the model records the calls made to it. *)
(* Strategy._convert_stateful_objects_in_state is not part of the sources: *)
(* it replaces an object that has a state_dict by that state_dict and      *)
(* keeps every key.                                                        *)
(***************************************************************************)
StateKeys == {"model", "optimizer", "step_count", "global_steps"}
StateObjects == {"engine", "optim", "value"}

\* _validate_state_keys that never warns
_validate_state_keys_silent(state) == {}

\* _validate_state_keys: the colliding keys it warns about
_validate_state_keys(state) ==
    {"module", "buffer_names", "optimizer", "param_shapes", "lr_scheduler",
     "sparse_tensor_module_names", "skipped_steps", "global_steps", "global_samples",
     "dp_world_size", "mp_world_size", "ds_config", "ds_version"} \cap DOMAIN state

\* DeepSpeedStrategy.save_checkpoint
save_checkpoint(st, path, state, storage_options) ==
    LET engines == { k \in DOMAIN state : state[k] = "engine" }   \* _get_deepspeed_engines_from_state
        excluded_objects == IF st.engine_optimizer # "none"
                            THEN {"engine", st.engine_optimizer} ELSE {"engine"}
        client == [k \in { j \in DOMAIN state : state[j] \notin excluded_objects } |-> state[k]]
        colliding_keys == _validate_state_keys(client)
        converted == [k \in DOMAIN client |->
                        IF client[k] = "optim" THEN "optim.state_dict()" ELSE client[k]]
    IN  IF storage_options # "None"
        THEN [st EXCEPT !.raised = "TypeError"]
        ELSE IF Cardinality(engines) # 1
        THEN [st EXCEPT !.raised = "ValueError"]
        ELSE [st EXCEPT !.raised = "no",
                        !.warnings = IF colliding_keys # {} THEN Append(@, colliding_keys) ELSE @,
                        !.engine_saves = Append(@, [path |-> path, client_state |-> converted,
                                                    tag |-> "checkpoint"])]

\* load_checkpoint that returns the whole client state as the remainder
load_checkpoint_returns_everything(st, path, state) ==
    LET engines == { k \in DOMAIN state : state[k] = "engine" }
        saved == { i \in 1..Len(st.engine_saves) : st.engine_saves[i].path = path }
    IN  IF st.load_full_weights /\ st.zero_stage_3
        THEN [st EXCEPT !.load = [raised |-> "delegated"]]
        ELSE IF DOMAIN state = {} \/ Cardinality(engines) # 1
        THEN [st EXCEPT !.load = [raised |-> "ValueError"]]
        ELSE IF saved = {}
        THEN [st EXCEPT !.load = [raised |-> "RuntimeError"]]
        ELSE LET client_state == st.engine_saves[CHOOSE i \in saved : \A j \in saved : j <= i].client_state
             IN  [st EXCEPT !.load =
                     [raised |-> "no",
                      checkpoint |-> client_state,
                      requested |-> state,
                      state |-> [k \in DOMAIN state |->
                                   IF k \in DOMAIN client_state THEN client_state[k] ELSE state[k]],
                      remainder |-> client_state]]

\* DeepSpeedStrategy.load_checkpoint.  engine.load_checkpoint(path, tag) hands
\* back the client state the engine saved under the path, None when there is
\* no such checkpoint; `state` is updated in place and the rest is returned.
load_checkpoint(st, path, state) ==
    LET engines == { k \in DOMAIN state : state[k] = "engine" }
        saved == { i \in 1..Len(st.engine_saves) : st.engine_saves[i].path = path }
    IN  IF st.load_full_weights /\ st.zero_stage_3
        THEN [st EXCEPT !.load = [raised |-> "delegated"]]      \* super().load_checkpoint
        ELSE IF DOMAIN state = {} \/ Cardinality(engines) # 1
        THEN [st EXCEPT !.load = [raised |-> "ValueError"]]
        ELSE IF saved = {}
        THEN [st EXCEPT !.load = [raised |-> "RuntimeError"]]
        ELSE LET client_state == st.engine_saves[CHOOSE i \in saved : \A j \in saved : j <= i].client_state
                 popped == { k \in DOMAIN client_state : k \in DOMAIN state }
             IN  [st EXCEPT !.load =
                     [raised |-> "no",
                      checkpoint |-> client_state,
                      requested |-> state,
                      state |-> [k \in DOMAIN state |->
                                   IF k \in popped THEN client_state[k] ELSE state[k]],
                      remainder |-> [k \in DOMAIN client_state \ popped |-> client_state[k]]]]

(***************************************************************************)
(* SpecDeepSpeed: save_checkpoint is called with any state over StateKeys, *)
(* and load_checkpoint then with any state and either path.               *)
(***************************************************************************)
DeepSpeedInit ==
    /\ \E engine_optimizer \in {"none", "optim"}, full \in BOOLEAN, stage_3 \in BOOLEAN :
          strategy = [kind |-> "DeepSpeedStrategy", engine_optimizer |-> engine_optimizer,
                      load_full_weights |-> full, zero_stage_3 |-> stage_3,
                      engine_saves |-> << >>, warnings |-> << >>, raised |-> "not called",
                      state |-> << >>, load |-> [raised |-> "not called"]]
    /\ data_fetcher = IdleFetcher
    /\ yielded = << >>
    /\ iterations = 0
    /\ loop = IdleLoop
    /\ trainer = IdleTrainer
    /\ obs = IdleObs
    /\ collective = IdleCollective
    /\ closure_io = IdleClosure

Call_save_checkpoint ==
    /\ strategy.raised = "not called"
    /\ \E keys \in SUBSET StateKeys, storage_options \in {"None", "options"} :
       \E state \in [keys -> StateObjects] :
          strategy' = [save_checkpoint(strategy, "path", state, storage_options)
                          EXCEPT !.state = state]
    /\ UNCHANGED <<data_fetcher, yielded, iterations, loop, trainer, obs, collective, closure_io>>

Call_load_checkpoint ==
    /\ strategy.raised # "not called"
    /\ strategy.load.raised = "not called"
    /\ \E keys \in SUBSET StateKeys, path \in {"path", "other"} :
       \E state \in [keys -> StateObjects] :
          strategy' = load_checkpoint(strategy, path, state)
    /\ UNCHANGED <<data_fetcher, yielded, iterations, loop, trainer, obs, collective, closure_io>>

DeepSpeedNextStep == Call_save_checkpoint \/ Call_load_checkpoint

SpecDeepSpeed == DeepSpeedInit /\ [][DeepSpeedNextStep]_vars

(***************************************************************************)
(* XLAFSDPStrategy.save_checkpoint and load_checkpoint                     *)
(* (lightning/fabric/strategies/xla_fsdp.py) on a world of world_size      *)
(* ranks.  The CheckpointIO plugin is the backend: the model records the   *)
(* calls made to checkpoint_io.save_checkpoint, each with the path it was  *)
(* given, which is the file that call writes.  A state maps keys to        *)
(* values; the model's parameters and the user entries are numbers.        *)
(***************************************************************************)
\* XLAFSDPStrategy.save_checkpoint on one rank
xla_save_checkpoint(st, rank, path, state) ==
    IF \E key \in {"model", "shard_metadata", "optimizer"} : key \notin DOMAIN state
    THEN [st EXCEPT !.raised[rank] = "ValueError", !.saved[rank] = TRUE]
    ELSE [st EXCEPT !.raised[rank] = "no", !.saved[rank] = TRUE,
                    !.io_saves = Append(@, [rank |-> rank, path |-> path, checkpoint |-> state])]

\* XLAFSDPStrategy.load_checkpoint on one rank: the method is defined without
\* parameters, nargs is the number of arguments of the call (self included)
xla_load_checkpoint(st, rank, nargs) ==
    IF nargs > 0
    THEN [st EXCEPT !.raised[rank] = "TypeError", !.loaded[rank] = TRUE]
    ELSE [st EXCEPT !.raised[rank] = "NotImplementedError", !.loaded[rank] = TRUE]

(***************************************************************************)
(* SpecXLACheckpoint: every rank saves the same state under the same       *)
(* broadcast path and then loads it into a fresh state.                    *)
(***************************************************************************)
XLACheckpointInit ==
    /\ \E world_size \in 1..MaxProcesses,
          keys \in SUBSET {"model", "shard_metadata", "optimizer", "step_count"},
          params \in 1..MaxSteps :
          strategy =
             [kind       |-> "XLAFSDPStrategy",
              world_size |-> world_size,
              ckpt       |-> [k \in keys |-> IF k = "model" THEN params ELSE 1],
              state      |-> [k \in keys |-> 0],       \* the fresh state each rank loads into
              remainder  |-> [r \in 0..(world_size - 1) |-> "none"],
              saved      |-> [r \in 0..(world_size - 1) |-> FALSE],
              loaded     |-> [r \in 0..(world_size - 1) |-> FALSE],
              raised     |-> [r \in 0..(world_size - 1) |-> "no"],
              io_saves   |-> << >>]
    /\ data_fetcher = IdleFetcher
    /\ yielded = << >>
    /\ iterations = 0
    /\ loop = IdleLoop
    /\ trainer = IdleTrainer
    /\ obs = IdleObs
    /\ collective = IdleCollective
    /\ closure_io = IdleClosure

Call_xla_save_checkpoint ==
    /\ \E rank \in 0..(strategy.world_size - 1) :
          /\ ~strategy.saved[rank]
          /\ strategy' = xla_save_checkpoint(strategy, rank, [name |-> "fsdp-checkpoint"],
                                             strategy.ckpt)
    /\ UNCHANGED <<data_fetcher, yielded, iterations, loop, trainer, obs, collective, closure_io>>

Call_xla_load_checkpoint ==
    /\ \A r \in 0..(strategy.world_size - 1) : strategy.saved[r] /\ strategy.raised[r] # "ValueError"
    /\ \E rank \in 0..(strategy.world_size - 1) :
          /\ ~strategy.loaded[rank]
          /\ strategy' = xla_load_checkpoint(strategy, rank, 3)
    /\ UNCHANGED <<data_fetcher, yielded, iterations, loop, trainer, obs, collective, closure_io>>

XLACheckpointNextStep == Call_xla_save_checkpoint \/ Call_xla_load_checkpoint

SpecXLACheckpoint == XLACheckpointInit /\ [][XLACheckpointNextStep]_vars

(***************************************************************************)
(* SpecStrategyCollectives: the collective operations of a strategy        *)
(* (FSDPStrategy, XLAFSDPStrategy, DDPPlugin), called before or after the  *)
(* distributed backend is initialized.  `backend` lists the calls that     *)
(* reach the backend (torch.distributed, torch_xla); `peer` is the value   *)
(* the other ranks contribute.                                             *)
(***************************************************************************)
MaxStrategyCalls == 2

PyNumber(v) == [type |-> "float", num |-> v, den |-> 1]
CollectiveValues == {Tensor(1, 1), Tensor(2, 1), PyNumber(1)}
ReduceOps == {"none", "sum", "mean", "max"}

Returned(st, value) == [st EXCEPT !.result = [raised |-> "no", value |-> value]]
Raised(st, exc) == [st EXCEPT !.result = [raised |-> exc, value |-> PyNone]]
Backend(st, call) == [st EXCEPT !.backend = Append(@, call)]

\* what the ranks of the world hold when this rank holds `own`
WorldSum(st, own) == Tensor(own.num + (st.world_size - 1) * st.peer.num, 1)
FromRank(st, src, own) == IF st.global_rank = src THEN own ELSE st.peer

\* lightning_lite FSDPStrategy.reduce / barrier / broadcast; `launched` is
\* distributed_available().  torch.distributed raises on a call made before
\* init_process_group.
FSDPStrategy_collective(st, op, arg, reduce_op, src) ==
    LET sync_ddp_if_available(result) ==
            IF st.launched
            THEN Returned(Backend(st, "all_reduce"),
                          IF reduce_op \in {"mean", "avg"}
                          THEN [WorldSum(st, result) EXCEPT !.den = st.world_size]
                          ELSE WorldSum(st, result))
            ELSE Returned(st, result)
        reduce == IF arg.type = "Tensor" THEN sync_ddp_if_available(arg) ELSE Returned(st, arg)
        barrier == IF ~st.launched THEN Returned(st, PyNone)
                   ELSE Returned(Backend(st, "barrier"), PyNone)
        broadcast == IF st.launched
                     THEN Returned(Backend(st, "broadcast_object_list"), FromRank(st, src, arg))
                     ELSE Raised(Backend(st, "broadcast_object_list"), "RuntimeError")
    IN  CASE op = "reduce" -> reduce
          [] op = "barrier" -> barrier
          [] op = "broadcast" -> broadcast

\* XLAFSDPStrategy.all_gather / all_reduce / barrier / broadcast; root_device
\* raises before the processes are launched
XLAFSDPStrategy_collective(st, op, arg, reduce_op, src) ==
    LET all_gather ==
            IF ~st.launched THEN Returned(st, arg)
            ELSE IF arg.type # "Tensor" THEN Raised(st, "NotImplementedError")
            ELSE Returned(Backend(st, "all_gather"),
                          [type |-> "Tensor",
                           rows |-> [r \in 0..(st.world_size - 1) |-> FromRank(st, r, arg)]])
        all_reduce ==
            IF arg.type # "Tensor" /\ ~st.launched
            THEN Raised(st, "RuntimeError")
            ELSE IF reduce_op \notin {"none", "sum", "mean", "avg"}
            THEN Raised(st, "ValueError")
            ELSE LET output == Tensor(arg.num, arg.den)
                     reduced == WorldSum(st, output)
                 IN  Returned(Backend(st, "mesh_reduce"),
                              IF reduce_op \in {"avg", "mean"}
                              THEN [reduced EXCEPT !.den = st.world_size]
                              ELSE reduced)
        barrier == IF ~st.launched THEN Returned(st, PyNone)
                   ELSE Returned(Backend(st, "rendezvous"), PyNone)
        broadcast == IF ~st.launched THEN Returned(st, arg)
                     ELSE Returned(Backend(st, "collective_broadcast"), FromRank(st, src, arg))
    IN  CASE op = "all_gather" -> all_gather
          [] op = "reduce" -> all_reduce
          [] op = "barrier" -> barrier
          [] op = "broadcast" -> broadcast

\* DDPPlugin.barrier; `launched` is torch_distrib.is_initialized()
DDPPlugin_barrier(st) ==
    IF st.launched THEN Returned(Backend(st, "barrier"), PyNone) ELSE Returned(st, PyNone)

StrategyOps(kind) ==
    CASE kind = "FSDPStrategy" -> {"reduce", "barrier", "broadcast"}
      [] kind = "XLAFSDPStrategy" -> {"all_gather", "reduce", "barrier", "broadcast"}
      [] kind = "DDPPlugin" -> {"barrier"}

strategy_collective(st, op, arg, reduce_op, src) ==
    CASE st.kind = "FSDPStrategy" -> FSDPStrategy_collective(st, op, arg, reduce_op, src)
      [] st.kind = "XLAFSDPStrategy" -> XLAFSDPStrategy_collective(st, op, arg, reduce_op, src)
      [] st.kind = "DDPPlugin" -> DDPPlugin_barrier(st)

StrategyCollectivesInit ==
    /\ \E kind \in {"FSDPStrategy", "XLAFSDPStrategy", "DDPPlugin"}, launched \in BOOLEAN,
          ws \in 1..MaxProcesses, peer \in {Tensor(1, 1), Tensor(2, 1)} :
          \E rank \in 0..(ws - 1) :
             strategy = [kind |-> kind, launched |-> launched, world_size |-> ws,
                         global_rank |-> rank, peer |-> peer, backend |-> << >>,
                         calls |-> 0,
                         last |-> [op |-> "none", arg |-> PyNone],
                         result |-> [raised |-> "not called", value |-> PyNone]]
    /\ data_fetcher = IdleFetcher /\ yielded = << >> /\ iterations = 0
    /\ loop = IdleLoop /\ trainer = IdleTrainer /\ obs = IdleObs
    /\ collective = IdleCollective /\ closure_io = IdleClosure

Call_barrier ==
    /\ strategy.calls < MaxStrategyCalls
    /\ "barrier" \in StrategyOps(strategy.kind)
    /\ \E arg \in CollectiveValues, reduce_op \in ReduceOps, src \in 0..(strategy.world_size - 1) :
          strategy' = [strategy_collective(strategy, "barrier", arg, reduce_op, src)
                         EXCEPT !.calls = @ + 1,
                                !.last = [op |-> "barrier", arg |-> PyNone]]
    /\ UNCHANGED <<data_fetcher, yielded, iterations, loop, trainer, obs, collective, closure_io>>

Call_reduce ==
    /\ strategy.calls < MaxStrategyCalls
    /\ "reduce" \in StrategyOps(strategy.kind)
    /\ \E arg \in CollectiveValues, reduce_op \in ReduceOps, src \in 0..(strategy.world_size - 1) :
          strategy' = [strategy_collective(strategy, "reduce", arg, reduce_op, src)
                         EXCEPT !.calls = @ + 1,
                                !.last = [op |-> "reduce", arg |-> arg]]
    /\ UNCHANGED <<data_fetcher, yielded, iterations, loop, trainer, obs, collective, closure_io>>

Call_all_gather ==
    /\ strategy.calls < MaxStrategyCalls
    /\ "all_gather" \in StrategyOps(strategy.kind)
    /\ \E arg \in CollectiveValues, reduce_op \in ReduceOps, src \in 0..(strategy.world_size - 1) :
          strategy' = [strategy_collective(strategy, "all_gather", arg, reduce_op, src)
                         EXCEPT !.calls = @ + 1,
                                !.last = [op |-> "all_gather", arg |-> arg]]
    /\ UNCHANGED <<data_fetcher, yielded, iterations, loop, trainer, obs, collective, closure_io>>

Call_broadcast ==
    /\ strategy.calls < MaxStrategyCalls
    /\ "broadcast" \in StrategyOps(strategy.kind)
    /\ \E arg \in CollectiveValues, reduce_op \in ReduceOps, src \in 0..(strategy.world_size - 1) :
          strategy' = [strategy_collective(strategy, "broadcast", arg, reduce_op, src)
                         EXCEPT !.calls = @ + 1,
                                !.last = [op |-> "broadcast", arg |-> arg]]
    /\ UNCHANGED <<data_fetcher, yielded, iterations, loop, trainer, obs, collective, closure_io>>

StrategyCollectivesNextStep == Call_barrier \/ Call_reduce \/ Call_all_gather \/ Call_broadcast

SpecStrategyCollectives == StrategyCollectivesInit /\ [][StrategyCollectivesNextStep]_vars

(***************************************************************************)
(* SpecSampler: UnrepeatedDistributedSampler                               *)
(* (pytorch_lightning/overrides/distributed.py) for a dataset of n samples *)
(* on every rank of num_replicas replicas.  All ranks are in the same      *)
(* epoch: with shuffle, torch.randperm seeded with the epoch gives every   *)
(* rank the same permutation, which is any permutation of the indices.     *)
(***************************************************************************)
MaxSamples == 4
MaxReplicas == 3

\* len(range(start, stop, step))
range_len(start, stop, step) == IF stop > start THEN (stop - start + step - 1) \div step ELSE 0

\* what torch.randperm(n) may return: the permutations of 0..n-1, as lists
randperm(n) ==
    { p \in [1..n -> 0..(n - 1)] : \A i, j \in 1..n : p[i] = p[j] => i = j }

\* UnrepeatedDistributedSampler.__init__
NewUnrepeatedDistributedSampler(dataset_len, num_replicas, rank) ==
    LET num_samples == range_len(rank, dataset_len, num_replicas)
        total_size == dataset_len
    IN  [num_samples |-> num_samples, total_size |-> total_size,
         rank |-> rank, num_replicas |-> num_replicas,
         raised |-> IF num_samples >= 1 \/ total_size = 0 THEN "no" ELSE "AssertionError",
         indices |-> << >>, iterated |-> FALSE]

\* __iter__ that takes every index from its rank on
sampler_iter_without_stride(sampler, indices) ==
    [sampler EXCEPT !.iterated = TRUE,
                    !.indices = [j \in 1..(sampler.total_size - sampler.rank) |->
                                    indices[sampler.rank + j]]]

\* UnrepeatedDistributedSampler.__iter__: indices[rank : total_size : num_replicas]
\* of the range or of the epoch's permutation
sampler_iter(sampler, indices) ==
    LET subsample == [j \in 1..range_len(sampler.rank, sampler.total_size, sampler.num_replicas) |->
                         indices[sampler.rank + (j - 1) * sampler.num_replicas + 1]]
    IN  IF Len(indices) # sampler.total_size \/ Len(subsample) # sampler.num_samples
        THEN [sampler EXCEPT !.iterated = TRUE, !.raised = "AssertionError"]
        ELSE [sampler EXCEPT !.iterated = TRUE, !.indices = subsample]

NoSampler == [raised |-> "not constructed"]

SamplerInit ==
    /\ \E n \in 0..MaxSamples, R \in 1..MaxReplicas, shuffle \in BOOLEAN :
          \E perm \in randperm(n) :
             strategy = [kind |-> "UnrepeatedDistributedSampler", dataset_len |-> n,
                         num_replicas |-> R, shuffle |-> shuffle, randperm |-> perm,
                         samplers |-> [r \in 0..(R - 1) |-> NoSampler]]
    /\ data_fetcher = IdleFetcher /\ yielded = << >> /\ iterations = 0
    /\ loop = IdleLoop /\ trainer = IdleTrainer /\ obs = IdleObs
    /\ collective = IdleCollective /\ closure_io = IdleClosure

\* a rank constructs its sampler
Call_sampler_init ==
    /\ \E rank \in 0..(strategy.num_replicas - 1) :
          /\ strategy.samplers[rank] = NoSampler
          /\ strategy' = [strategy EXCEPT !.samplers[rank] =
                             NewUnrepeatedDistributedSampler(strategy.dataset_len,
                                                             strategy.num_replicas, rank)]
    /\ UNCHANGED <<data_fetcher, yielded, iterations, loop, trainer, obs, collective, closure_io>>

\* a rank iterates its sampler
Call_sampler_iter ==
    /\ \E rank \in 0..(strategy.num_replicas - 1) :
          /\ strategy.samplers[rank].raised = "no"
          /\ ~strategy.samplers[rank].iterated
          /\ strategy' = [strategy EXCEPT !.samplers[rank] =
                             sampler_iter(@, IF strategy.shuffle
                                             THEN strategy.randperm
                                             ELSE [i \in 1..strategy.dataset_len |-> i - 1])]
    /\ UNCHANGED <<data_fetcher, yielded, iterations, loop, trainer, obs, collective, closure_io>>

SamplerNextStep == Call_sampler_init \/ Call_sampler_iter

SpecSampler == SamplerInit /\ [][SamplerNextStep]_vars

(***************************************************************************)
(* Properties.                                                             *)
(***************************************************************************)
\* the counters of one scope of a batch progress are ordered
Ordered(t) == t.ready >= t.started /\ t.started >= t.processed /\ t.processed >= t.completed

\* C1 (SpecLoop): in the epoch loop's batch progress, current and total,
\* ready >= started >= processed >= completed holds at every point of every
\* run, None batches and a batch whose on_train_batch_start returns -1 included.
C1_BatchProgressOrdered ==
    /\ Ordered(loop.batch_progress.current)
    /\ Ordered(loop.batch_progress.total)

\* C2 (SpecLoop): whenever advance() has returned normally for a batch,
\* trained or None, the four current batch counters are equal.
C2_CountersEqualAfterAdvance ==
    loop.pc = "advanced" =>
        LET t == loop.batch_progress.current
        IN  t.ready = t.started /\ t.started = t.processed /\ t.processed = t.completed

\* C3 (SpecFetcher): over an iterable of N non-None elements, for every
\* prefetch depth, the i-th pair yielded carries the i-th element, is_last is
\* set on the N-th pair and on no other, and the iteration ends after exactly
\* N pairs.
C3_YieldsEveryBatchInOrder ==
    data_fetcher.dataloader.none = {} =>
        /\ \A i \in 1..Len(yielded) :
              /\ yielded[i].batch = i
              /\ yielded[i].is_last = (i = data_fetcher.dataloader.len)
        /\ Len(yielded) <= data_fetcher.dataloader.len
        /\ data_fetcher.gen = "finished" => Len(yielded) = data_fetcher.dataloader.len

C3_Witness ==
    /\ data_fetcher.variant = "DataFetcher"
    /\ data_fetcher.dataloader.none = {}
    /\ data_fetcher.dataloader.len = MaxBatches
    /\ data_fetcher.prefetch_batches = MaxPrefetch + 1
    /\ data_fetcher.gen = "finished"
    /\ Len(yielded) = MaxBatches
    /\ yielded[MaxBatches].is_last

\* the fit of C4: max_steps is set, no accumulation, a dataloader that never
\* runs out of non-None batches, and no hook that ends the epoch
C4_Scenario ==
    /\ loop.max_steps # NoLimit
    /\ trainer.accumulate_grad_batches = 1
    /\ data_fetcher.dataloader.infinite
    /\ data_fetcher.dataloader.none = {}
    /\ trainer.stop_at = 0

\* C4 (SpecLoop): the optimizer steps never exceed max_steps; and with
\* max_steps = m, accumulate_grad_batches = 1 and a dataloader that never runs
\* out, run() goes on exactly while steps are missing, is not cut short, and
\* returns with m optimizer steps taken and batch_progress.current.completed = m.
C4_MaxStepsEndsTheRun ==
    /\ loop.max_steps # NoLimit => optimizer_steps(loop.optim_progress) <= loop.max_steps
    /\ C4_Scenario =>
          /\ loop.pc \notin {"break", "raised"}
          /\ obs.advances <= loop.max_steps
          /\ (loop.pc = "loop" /\ ~done(LoopBundle)) => obs.advances < loop.max_steps
          /\ loop.pc = "returned" =>
                /\ optimizer_steps(loop.optim_progress) = loop.max_steps
                /\ loop.batch_progress.current.completed = loop.max_steps

C4_Witness ==
    /\ C4_Scenario
    /\ loop.max_steps = MaxSteps
    /\ loop.pc = "returned"
    /\ optimizer_steps(loop.optim_progress) = MaxSteps

\* C5 (SpecCollective): create_group on a collective that owns a group
\* raises RuntimeError, keeps the group and calls neither init_group nor
\* new_group; teardown on a collective that owns no group raises RuntimeError
\* and does not call destroy_group.
C5_GroupGuards ==
    [][ collective'.ops = collective.ops + 1 =>
          /\ (collective'.last.op = "create_group" /\ collective._group # None) =>
                /\ collective'.last.raised = "RuntimeError"
                /\ collective'._group = collective._group
                /\ collective'.calls = collective.calls
                /\ collective'.groups_created = collective.groups_created
          /\ (collective'.last.op = "teardown" /\ collective._group = None) =>
                /\ collective'.last.raised = "RuntimeError"
                /\ collective'.calls = collective.calls
                /\ collective'.destroyed = collective.destroyed
      ]_vars

C5_Witness ==
    /\ collective.raised_by = {"create_group", "teardown"}
    /\ collective.groups_created >= 1

\* an advance() step that ran the optimization loop on its batch
C6_RanOnBatch == Len(obs'.trained) = Len(obs.trained) + 1

\* what the sync-blocking branch of run does
C6_Blocked ==
    /\ obs'.closure_calls = obs.closure_calls + 1
    /\ obs'.closure_calls_blocked = obs.closure_calls_blocked + 1
    /\ obs'.optimizer_step_calls = obs.optimizer_step_calls
    /\ loop'.optim_progress.step = loop.optim_progress.step

\* the optimizer step is called once, outside the sync-blocking scope
C6_Stepped ==
    /\ obs'.optimizer_step_calls = obs.optimizer_step_calls + 1
    /\ obs'.closure_calls_blocked = obs.closure_calls_blocked

\* step.ready was incremented before the closure ran and step.completed after
C6_Counted ==
    /\ loop'.optim_progress.step = increment(increment(loop.optim_progress.step, "ready"), "completed")
    /\ obs'.steps_in_flight = 1

\* C6 as stated (SpecLoopOptim): run either (a) calls the closure once inside
\* the sync-blocking scope, with no optimizer step and the step counters left
\* alone, when the strategy does not handle accumulation and the batch
\* accumulates, or (b) otherwise calls the optimizer step once, incrementing
\* step.ready before and step.completed after it; the scope is closed after run.
C6_RunBlocksOrSteps ==
    [][ C6_RanOnBatch =>
          /\ obs'.sync_blocked = FALSE
          /\ loop'.raised = "no" =>
                IF ~trainer.handles_gradient_accumulation /\ (_should_accumulate(LoopBundle))'
                THEN C6_Blocked
                ELSE C6_Stepped /\ C6_Counted
      ]_vars

\* C6 amended (SpecLoopOptim): as C6, but in (b) the step counters are
\* incremented only when the batch does not accumulate: the optimizer step of
\* a strategy that handles accumulation itself, on an accumulating batch,
\* leaves step.ready and step.completed unchanged.
C6_RunBlocksOrStepsCountingUnlessAccumulating ==
    [][ C6_RanOnBatch =>
          /\ obs'.sync_blocked = FALSE
          /\ loop'.raised = "no" =>
                IF ~trainer.handles_gradient_accumulation /\ (_should_accumulate(LoopBundle))'
                THEN C6_Blocked
                ELSE /\ C6_Stepped
                     /\ IF (_should_accumulate(LoopBundle))'
                        THEN loop'.optim_progress.step = loop.optim_progress.step
                        ELSE C6_Counted
      ]_vars

C6_Witness ==
    /\ trainer.handles_gradient_accumulation
    /\ loop.pc = "returned"
    /\ obs.optimizer_step_calls = MaxBatches
    /\ optimizer_steps(loop.optim_progress) < MaxBatches
    /\ optimizer_steps(loop.optim_progress) >= 1

\* C7 (SpecStrategy): bringing a strategy up again when it was brought up
\* before and its process group is initialized makes no further
\* init_process_group call and leaves global_rank, local_rank, node_rank and
\* world_size as they were.
C7_SetupEnvironmentIdempotent ==
    [][ (/\ strategy'.setup_calls = strategy.setup_calls + 1
         /\ strategy.setup_calls >= 1
         /\ strategy.dist.initialized) =>
          /\ strategy'.dist = strategy.dist
          /\ RankFacts(strategy') = RankFacts(strategy)
          /\ strategy'.raised = "no"
      ]_vars

C7_Witness ==
    /\ strategy.kind = "FSDPStrategy"
    /\ strategy.setup_calls = 2
    /\ Len(strategy.dist.init_calls) = 1
    /\ RankFacts(strategy).world_size = MaxNodes * MaxProcesses
    /\ RankFacts(strategy).global_rank > 0

\* C8 (SpecLoopResume): a loop restored from a checkpoint taken after k
\* batches of an N-batch epoch completed trains exactly batches k+1..N, in
\* order.
C8_ResumeContinuesAfterCheckpoint ==
    loop.restarts > 0 =>
        /\ \A i \in 1..Len(obs.trained) : obs.trained[i] = obs.resumed_at + i
        /\ loop.pc = "returned" =>
              Len(obs.trained) = trainer.num_training_batches - obs.resumed_at

\* the training-step outputs C9 says are accepted: a tensor, a mapping that
\* contains a "loss" key, None
C9_Accepted(out) ==
    \/ out.type = "Tensor"
    \/ out.type = "dict" /\ "loss" \in DOMAIN out.items
    \/ out.type = "None"

\* the result from_training_step_output builds for an output with this loss
C9_ResultFor(loss, extra, normalize) ==
    /\ closure_io.result.raised = "no"
    /\ closure_io.result.extra = extra
    /\ IF loss.type = "None"
       THEN closure_io.result.closure_loss = PyNone /\ closure_io.result.loss = PyNone
       ELSE /\ closure_io.result.closure_loss = Tensor(loss.num, loss.den * normalize)
            /\ closure_io.result.loss = closure_io.result.closure_loss

\* C9 as stated (SpecClosure): a result is returned for exactly a tensor, a
\* mapping that contains a "loss" key and None; every other output raises
\* MisconfigurationException.
C9_AcceptsTensorMappingWithLossOrNone ==
    closure_io.pc = "called" =>
        IF C9_Accepted(closure_io.training_step_output)
        THEN closure_io.result.raised = "no"
        ELSE closure_io.result.raised = "MisconfigurationException"

\* C9 amended (SpecClosure): a result is returned for exactly a tensor (taken
\* as the loss), a mapping whose "loss" entry is a tensor (its other entries
\* become extra) and None (a result with no loss); the loss is divided by
\* normalize and the input is not modified.  A mapping without a "loss" key
\* or with a "loss" of None, and an output that is no tensor, mapping or None,
\* raise MisconfigurationException; a mapping whose "loss" is neither a tensor
\* nor None raises another error, not MisconfigurationException.
C9_AcceptsTensorMappingWithTensorLossOrNone ==
    closure_io.pc = "called" =>
        LET out == closure_io.training_step_output
            loss == dict_get(out, "loss")
        IN  /\ closure_io.result.output_after = out
            /\ CASE out.type = "Tensor" -> C9_ResultFor(out, EmptyDict, closure_io.normalize)
                 [] out.type = "None" -> C9_ResultFor(PyNone, EmptyDict, closure_io.normalize)
                 [] out.type = "dict" /\ loss.type = "Tensor" ->
                       C9_ResultFor(loss, [k \in DOMAIN out.items \ {"loss"} |-> out.items[k]],
                                    closure_io.normalize)
                 [] out.type = "dict" /\ loss.type = "None" ->
                       closure_io.result.raised = "MisconfigurationException"
                 [] out.type = "dict" ->
                       closure_io.result.raised \in {"AttributeError", "TypeError"}
                 [] OTHER -> closure_io.result.raised = "MisconfigurationException"

C9_Witness ==
    /\ closure_io.pc = "called"
    /\ closure_io.training_step_output.type = "dict"
    /\ DOMAIN closure_io.training_step_output.items = {"loss", "log"}
    /\ closure_io.training_step_output.items["loss"].type = "Tensor"
    /\ closure_io.normalize = MaxAccumulate
    /\ closure_io.result.raised = "no"
    /\ DOMAIN closure_io.result.extra = {"log"}

\* C10 (SpecLoop): a batch for which on_train_batch_start returned -1 is not
\* trained (no training step, backward or optimizer step runs for it, and
\* on_train_batch_end is not called with it), it is the last batch the loop
\* fetched and the last one the hook saw, and the run is at its break, from
\* where it returns, or has returned: the StopIteration does not escape.
C10_MinusOneEndsTheEpoch ==
    \A i \in 1..Len(obs.responses) :
        obs.responses[i] = -1 =>
            LET batch == obs.on_train_batch_start[i]
            IN  /\ i = Len(obs.responses)
                /\ batch = obs.fetched[Len(obs.fetched)]
                /\ \A j \in 1..Len(obs.trained) : obs.trained[j] # batch
                /\ \A j \in 1..Len(obs.on_train_batch_end) : obs.on_train_batch_end[j] # batch
                /\ obs.closure_calls = Len(obs.trained)
                /\ obs.optimizer_step_calls + obs.closure_calls_blocked = Len(obs.trained)
                /\ Len(obs.backward_losses) = Len(obs.trained)
                /\ loop.pc \in {"break", "returned"}
                /\ loop.pc = "break" => ENABLED Run_end
                /\ loop.pc = "returned" => loop.raised = "no"

C10_Witness ==
    /\ loop.pc = "returned"
    /\ Len(obs.trained) >= 1
    /\ Len(obs.responses) = Len(obs.trained) + 1
    /\ obs.responses[Len(obs.responses)] = -1
    /\ HasNext(data_fetcher.dataloader, data_fetcher.dataloader_iter)

\* an advance() step in which the data fetcher handed out a None batch
C11_GotNone ==
    /\ Len(obs'.fetched) = Len(obs.fetched) + 1
    /\ Elem(data_fetcher.dataloader, obs'.fetched[Len(obs'.fetched)]) = None

\* the counters k of a batch progress went up by one, in both scopes
C11_Incremented(k) ==
    /\ loop'.batch_progress.current[k] = loop.batch_progress.current[k] + 1
    /\ loop'.batch_progress.total[k] = loop.batch_progress.total[k] + 1

\* C11 (SpecLoop): when the data fetcher hands advance() a None batch,
\* advance() returns without an exception, on_train_batch_start and the
\* optimization loop are not run for it, ready, processed and completed each
\* go up by one, and the run goes on: as long as the epoch is not over after
\* a None batch, the loop is not done and advances to the next fetch.
C11_NoneBatchIsCountedAndSkipped ==
    /\ [][ C11_GotNone =>
             /\ loop'.raised = "no"
             /\ loop'.pc = "advanced"
             /\ obs'.on_train_batch_start = obs.on_train_batch_start
             /\ obs'.trained = obs.trained
             /\ obs'.closure_calls = obs.closure_calls
             /\ obs'.optimizer_step_calls = obs.optimizer_step_calls
             /\ loop'.optim_progress = loop.optim_progress
             /\ C11_Incremented("ready")
             /\ C11_Incremented("processed")
             /\ C11_Incremented("completed")
         ]_vars
    /\ [](( /\ loop.pc \in {"advanced", "loop"}
            /\ Len(obs.fetched) > 0
            /\ Elem(data_fetcher.dataloader, obs.fetched[Len(obs.fetched)]) = None )
          => /\ loop.raised = "no"
             /\ (loop.pc = "loop" /\ ~_is_training_done(LoopBundle)) => ~done(LoopBundle))

C11_Witness ==
    /\ Len(obs.fetched) >= 2
    /\ Elem(data_fetcher.dataloader, obs.fetched[1]) = None
    /\ Len(obs.trained) >= 1
    /\ obs.trained[1] = obs.fetched[2]
    /\ loop.batch_progress.current.completed = 2
    /\ loop.pc = "returned"

\* the minimums of the fit are satisfied: min_epochs, and min_steps if set
C12_MinimumsMet ==
    /\ trainer.met_min_epochs
    /\ loop.min_steps = None \/ optimizer_steps(loop.optim_progress) >= loop.min_steps

\* C12 (SpecLoopStop): at the loop's `while not self.done`, while should_stop
\* is set, the minimums are not satisfied and training is not done, done is
\* False and the loop advances; once the minimums are satisfied with
\* should_stop set, done is True and the run fetches no further batch.
C12_StopWaitsForMinimums ==
    /\ []( (loop.pc = "loop" /\ trainer.should_stop) =>
             /\ (~C12_MinimumsMet /\ ~_is_training_done(LoopBundle)) =>
                   /\ ~done(LoopBundle)
                   /\ obs.advances < MaxAdvances => ENABLED Advance
             /\ C12_MinimumsMet => done(LoopBundle) /\ ~ENABLED Advance )
    /\ [][ (trainer.should_stop /\ C12_MinimumsMet) => obs'.fetched = obs.fetched ]_vars

C12_Witness ==
    /\ loop.pc = "returned"
    /\ trainer.early_stop_at = 1
    /\ loop.min_steps = 2
    /\ trainer.accumulate_grad_batches = 1
    /\ Len(obs.fetched) = 2
    /\ ~_is_training_done(LoopBundle)
    /\ HasNext(data_fetcher.dataloader, Len(obs.fetched))

\* C13 (SpecLoopSigterm): SIGTERMException is raised only by on_advance_end,
\* with no counter of the batch progress moved by that step and the current
\* batch completed (ready = completed), and, when validation is due for the
\* batch, after that validation has run to its end; at no point is a raised
\* SIGTERMException found between a batch's increment_ready and its
\* increment_completed.
C13_SigtermOnlyAtBatchEnd ==
    /\ [][ (loop'.raised = "SIGTERMException" /\ loop.raised # "SIGTERMException") =>
             /\ loop.pc = "advanced"
             /\ loop'.batch_progress = loop.batch_progress
             /\ loop.batch_progress.current.completed = loop.batch_progress.current.ready
             /\ obs'.fetched = obs.fetched
             /\ _should_check_val_fx(LoopBundle) =>
                   /\ Len(obs'.val_runs) = Len(obs.val_runs) + 1
                   /\ obs'.val_runs[Len(obs'.val_runs)].batch = loop.batch_progress.current.ready
                   /\ loop'.val_loop.done
         ]_vars
    /\ [](loop.raised = "SIGTERMException" =>
             /\ loop.pc = "raised"
             /\ loop.batch_progress.current.ready = loop.batch_progress.current.completed
             /\ loop.batch_progress.total.ready = loop.batch_progress.total.completed)

C13_Witness ==
    /\ loop.raised = "SIGTERMException"
    /\ Len(obs.val_runs) >= 1
    /\ obs.val_runs[Len(obs.val_runs)].batch = loop.batch_progress.current.completed
    /\ loop.batch_progress.current.completed = 2

\* C14 (SpecLoopSigterm): when on_advance_end runs with the termination flag
\* set, then if the batch just processed made training done (max_steps
\* reached or the epoch's last batch) no exception is raised, the loop is
\* done and run() returns normally; otherwise SIGTERMException is raised by
\* that on_advance_end, and the run fetches no further batch.
C14_SigtermDeferredWhenTrainingDone ==
    /\ [][ (loop.pc = "advanced" /\ trainer.received_sigterm) =>
             IF _is_training_done(LoopBundle)
             THEN /\ loop'.raised = "no"
                  /\ loop'.pc = "loop"
                  /\ (done(LoopBundle))'
                  /\ (ENABLED Run_end)'
                  /\ ~(ENABLED Advance)'
             ELSE /\ loop'.raised = "SIGTERMException"
                  /\ loop'.pc = "raised"
                  /\ obs'.fetched = obs.fetched
         ]_vars
    /\ [][ loop.pc = "raised" => obs'.fetched = obs.fetched /\ loop' = loop ]_vars
    /\ [](loop.pc = "returned" => loop.raised = "no")

C14_Witness ==
    /\ loop.pc = "returned"
    /\ obs.sigterm_deferred
    /\ loop.max_steps = MaxSteps
    /\ optimizer_steps(loop.optim_progress) = MaxSteps
    /\ data_fetcher.dataloader.infinite
    /\ obs.advances = MaxSteps

\* validation is due in this epoch
C15_Due ==
    /\ trainer.enable_validation
    /\ \/ trainer.check_val_every_n_epoch = None
       \/ (trainer.current_epoch + 1) % trainer.check_val_every_n_epoch = 0

\* this step ran the validation loop
C15_Ran == Len(obs'.val_runs) = Len(obs.val_runs) + 1

\* what C15 says of the on_advance_end of a batch whose index is `index`
C15_AtBatchEnd(index) ==
    IF ~C15_Due
    THEN ~C15_Ran
    ELSE /\ trainer.should_stop => C15_Ran
         /\ (loop.batch_progress.is_last_batch /\ trainer.val_check_batch = INF) => C15_Ran
         /\ (trainer.val_check_batch # INF /\ ~trainer.should_stop) =>
               (C15_Ran <=> index % trainer.val_check_batch = 0)

\* C15 as stated (SpecLoopVal): in an epoch where validation is due it runs
\* at the end of a batch whenever should_stop is set or the batch is the last
\* one of an infinite dataset; with a finite val_check_batch = n and no stop
\* requested it runs exactly after the batches whose 1-based index in the
\* epoch is a multiple of n; where validation is not due it never runs.
C15_ValidationEveryNthBatchOfEpoch ==
    [][ /\ C15_Ran => loop.pc = "advanced"
        /\ loop.pc = "advanced" => C15_AtBatchEnd(loop.batch_progress.current.ready)
      ]_vars

\* C15 amended (SpecLoopVal): as C15, with the batches counted within the
\* epoch when check_val_every_n_epoch is set and across all the epochs of
\* the fit when it is None.
C15_ValidationEveryNthBatch ==
    [][ /\ C15_Ran => loop.pc = "advanced"
        /\ loop.pc = "advanced" =>
              C15_AtBatchEnd(IF trainer.check_val_every_n_epoch = None
                             THEN loop.batch_progress.total.ready
                             ELSE loop.batch_progress.current.ready)
      ]_vars

C15_Witness ==
    /\ trainer.check_val_every_n_epoch = None
    /\ trainer.val_check_batch = 2
    /\ ~trainer.should_stop
    /\ loop.pc = "returned"
    /\ Len(obs.val_runs) = 1
    /\ obs.val_runs[1].batch = 1
    /\ loop.batch_progress.current.completed = 2
    /\ loop.batch_progress.total.completed = 5

\* batch b is the batch that ends the epoch
C16_EndsEpoch(b) ==
    /\ b = loop.batch_progress.current.ready
    /\ \/ b = trainer.num_training_batches
       \/ loop.batch_progress.is_last_batch

\* batch b is still accumulating gradients
C16_Accumulating(b) == b % trainer.accumulate_grad_batches # 0 /\ ~C16_EndsEpoch(b)

\* scheduler ci has been stepped for batch b
C16_SteppedFor(ci, b) ==
    \E i \in 1..Len(obs.lr_scheduler_steps) :
        obs.lr_scheduler_steps[i].config = ci /\ obs.lr_scheduler_steps[i].batch = b

\* C16 (SpecLoopSched): every step of a non-plateau "step"-interval scheduler
\* is taken in advance(), before the validation of its batch, and every step
\* of a plateau scheduler in on_advance_end, after that validation; no
\* "step"-interval scheduler is stepped on a batch that is still accumulating;
\* a non-plateau "epoch"-interval scheduler is stepped only on the batch that
\* ends the epoch; and when advance() has returned, every non-plateau
\* "step"-interval scheduler due on a non-accumulating batch has been stepped.
C16_SchedulersStepAroundValidation ==
    /\ \A i \in 1..Len(obs.lr_scheduler_steps) :
          LET s == obs.lr_scheduler_steps[i]
              c == trainer.lr_scheduler_configs[s.config]
          IN  /\ c.interval = s.interval
              /\ (~c.reduce_on_plateau /\ s.interval = "step") =>
                    /\ ~s.after_val
                    /\ \A j \in 1..Len(obs.val_runs) : obs.val_runs[j].batch = s.batch => j > s.vals
              /\ c.reduce_on_plateau =>
                    /\ s.after_val
                    /\ \A j \in 1..Len(obs.val_runs) : obs.val_runs[j].batch = s.batch => j <= s.vals
              /\ s.interval = "step" => ~C16_Accumulating(s.batch)
              /\ (~c.reduce_on_plateau /\ s.interval = "epoch") => C16_EndsEpoch(s.batch)
    /\ loop.pc = "advanced" =>
          \A ci \in 1..Len(trainer.lr_scheduler_configs) :
              LET c == trainer.lr_scheduler_configs[ci]
                  b == loop.batch_progress.current.ready
              IN  (/\ ~c.reduce_on_plateau
                   /\ c.interval = "step"
                   /\ b % c.frequency = 0
                   /\ ~C16_Accumulating(b)) => C16_SteppedFor(ci, b)

C16_Witness ==
    /\ loop.pc = "returned"
    /\ trainer.accumulate_grad_batches = 2
    /\ Len(trainer.lr_scheduler_configs) = 2
    /\ Len(obs.val_runs) = 2
    /\ Len(obs.lr_scheduler_steps) = 2
    /\ obs.lr_scheduler_steps[1] =
          [config |-> 2, interval |-> "step", batch |-> 2, after_val |-> FALSE, vals |-> 1]
    /\ obs.lr_scheduler_steps[2] =
          [config |-> 1, interval |-> "step", batch |-> 2, after_val |-> TRUE, vals |-> 2]

\* plateau scheduler ci is due at the end of the current batch
C17_Due(ci) ==
    LET c == trainer.lr_scheduler_configs[ci]
        b == loop.batch_progress.current.ready
    IN  /\ c.reduce_on_plateau
        /\ c.interval = "step"
        /\ b % c.frequency = 0
        /\ ~C16_Accumulating(b)

\* the metric scheduler ci monitors is missing
C17_Missing(ci) == trainer.lr_scheduler_configs[ci].monitor \notin trainer.callback_metrics

\* the due plateau schedulers whose metric is missing and that are strict
C17_StrictMissing ==
    { ci \in 1..Len(trainer.lr_scheduler_configs) :
        C17_Due(ci) /\ C17_Missing(ci) /\ trainer.lr_scheduler_configs[ci].strict }

\* the schedulers this step called lr_scheduler_step for
C17_SteppedNow ==
    { obs'.lr_scheduler_steps[i].config :
        i \in (Len(obs.lr_scheduler_steps) + 1)..Len(obs'.lr_scheduler_steps) }

\* C17 (SpecLoopSched): in on_advance_end, a due plateau scheduler whose
\* monitored metric is missing gets no scheduler_progress increment and no
\* lr_scheduler_step call; if it is strict, MisconfigurationException is
\* raised at it, the schedulers after it being left alone; if it is not strict
\* it is skipped and the due schedulers after it are processed as usual.
C17_MissingMonitorRaisesOrSkips ==
    [][ loop.pc = "advanced" =>
          LET n == Len(trainer.lr_scheduler_configs)
              limit == IF C17_StrictMissing = {} THEN n + 1
                       ELSE CHOOSE ci \in C17_StrictMissing : \A cj \in C17_StrictMissing : ci <= cj
          IN  /\ C17_SteppedNow = { ci \in 1..n : C17_Due(ci) /\ ~C17_Missing(ci) /\ ci < limit }
              /\ Len(obs'.lr_scheduler_steps) - Len(obs.lr_scheduler_steps) = Cardinality(C17_SteppedNow)
              /\ loop'.scheduler_progress.total.ready =
                    loop.scheduler_progress.total.ready + Cardinality(C17_SteppedNow)
              /\ loop'.scheduler_progress.total.completed =
                    loop.scheduler_progress.total.completed + Cardinality(C17_SteppedNow)
              /\ loop'.raised = IF C17_StrictMissing = {} THEN "no" ELSE "MisconfigurationException"
      ]_vars

C17_Witness ==
    /\ loop.raised = "MisconfigurationException"
    /\ Len(trainer.lr_scheduler_configs) = 2
    /\ trainer.lr_scheduler_configs[1].reduce_on_plateau
    /\ ~trainer.lr_scheduler_configs[1].strict
    /\ trainer.lr_scheduler_configs[1].monitor = "val_acc"
    /\ trainer.lr_scheduler_configs[1].interval = "step"
    /\ trainer.lr_scheduler_configs[2].strict
    /\ trainer.lr_scheduler_configs[2].monitor = "val_loss"
    /\ trainer.lr_scheduler_configs[2].interval = "step"
    /\ trainer.lr_scheduler_configs[2].frequency = 2
    /\ trainer.callback_metrics = {}
    /\ loop.batch_progress.current.completed = 2
    /\ obs.lr_scheduler_steps = << >>

C19_DoneOnlyWithFinalBatch ==
    data_fetcher.dataloader.none = {} =>
        \A i \in 1..Len(yielded) : yielded[i].done = yielded[i].is_last

\* C20 (SpecFetcher): in InterBatchParallelismDataFetcher, over a dataloader
\* without None elements and in every iteration of the fetcher, the event
\* waited on right before a batch is yielded is the event recorded when the
\* fetch of that batch finished.
C20_WaitsOnTheBatchsOwnEvent ==
    (data_fetcher.variant = "InterBatchParallelismDataFetcher" /\ data_fetcher.dataloader.none = {}) =>
        \A i \in 1..Len(yielded) : yielded[i].waited = yielded[i].batch

\* the calls made to new_group and destroy_group, in order
C21_GroupCalls ==
    SelectSeq(collective.calls, LAMBDA op : op \in {"new_group", "destroy_group"})

\* C21 (SpecCollective): over any sequence of create_group, teardown and
\* group reads on one Collective, the calls to new_group and destroy_group
\* alternate strictly, starting with new_group, no group handle is passed to
\* destroy_group twice, and a read of group that succeeded happened after a
\* successful create_group with no teardown since (the latest of the two
\* backend calls is new_group) and returned the group created last.
C21_CreateUseTeardownLifecycle ==
    /\ \A i \in 1..Len(C21_GroupCalls) :
          C21_GroupCalls[i] = (IF i % 2 = 1 THEN "new_group" ELSE "destroy_group")
    /\ \A i, j \in 1..Len(collective.destroyed) :
          collective.destroyed[i] = collective.destroyed[j] => i = j
    /\ (collective.last.op = "group" /\ collective.last.raised = "no") =>
          /\ Len(C21_GroupCalls) % 2 = 1
          /\ collective.last.value = collective.groups_created
    /\ (collective.last.op = "group" /\ collective.last.raised # "no") =>
          Len(C21_GroupCalls) % 2 = 0

\* two groups were created and destroyed in turn, a read of group raised
\* while none was owned and the latest read, after a third create, succeeded
C21_Witness ==
    /\ Len(collective.destroyed) >= 1
    /\ collective.groups_created >= 2
    /\ "group" \in collective.raised_by
    /\ collective.last.op = "group"
    /\ collective.last.raised = "no"

\* the optimizer handed to setup_optimizer references a flattened parameter
C22_ReferencesFlat ==
    \E i \in 1..Len(strategy.optimizer.param_groups[1].params.items) :
        strategy.optimizer.param_groups[1].params.items[i].type = "FlatParameter"

\* C22 (SpecSetupOptimizer): for the FSDP-family strategies,
\* setup_optimizer(optimizer) returns the optimizer when it has a single
\* param group holding at least one flattened parameter, and raises
\* ValueError when it has several param groups or references no flattened
\* parameter.
C22_SetupOptimizerValidates ==
    strategy.result.raised # "not called" =>
        IF Len(strategy.optimizer.param_groups) = 1 /\ C22_ReferencesFlat
        THEN strategy.result = [raised |-> "no", value |-> strategy.optimizer]
        ELSE strategy.result.raised = "ValueError"

\* the process runs without the PL_IN_DDP_SUBPROCESS marker
C23_Unmarked == environ_get(strategy.environ, "PL_IN_DDP_SUBPROCESS", "0") # "1"

\* C23 (SpecDDPSetup): a setup() in a process without the
\* PL_IN_DDP_SUBPROCESS marker starts exactly num_processes - 1 processes,
\* one for each LOCAL_RANK in 1..num_processes-1, each given the marker,
\* PL_TRAINER_GPUS and the MASTER_ADDR, MASTER_PORT and WORLD_SIZE of the
\* root; a setup() in a process with the marker starts none.
C23_SetupLaunchesTheSiblings ==
    [][ strategy'.setups = strategy.setups + 1 =>
          IF C23_Unmarked
          THEN /\ Len(strategy'.popen) = Len(strategy.popen) + strategy.num_processes - 1
               /\ \A i \in 1..(strategy.num_processes - 1) :
                     LET child == strategy'.popen[Len(strategy.popen) + i]
                     IN  /\ {"LOCAL_RANK", "PL_IN_DDP_SUBPROCESS", "PL_TRAINER_GPUS",
                             "MASTER_ADDR", "MASTER_PORT", "WORLD_SIZE"} \subseteq DOMAIN child
                         /\ child["LOCAL_RANK"] = ToString(i)
                         /\ child["PL_IN_DDP_SUBPROCESS"] = "1"
                         /\ "WORLD_SIZE" \in DOMAIN strategy'.environ
                         /\ \A k \in {"MASTER_ADDR", "MASTER_PORT", "WORLD_SIZE"} :
                               child[k] = strategy'.environ[k]
          ELSE strategy'.popen = strategy.popen
      ]_vars

\* the instance has gone through its spawn bookkeeping
C24_HasSpawned == strategy._has_spawned_children

\* C24 (SpecDDPSetup): once a DDPPlugin has spawned its children, a further
\* setup() on it in the root process raises the "already spawned"
\* RuntimeError and starts no additional process.
C24_SecondSetupRaisesAlreadySpawned ==
    [][ (strategy'.setups = strategy.setups + 1 /\ C24_HasSpawned) =>
          /\ strategy'.raised = "RuntimeError"
          /\ strategy'.popen = strategy.popen
      ]_vars

\* every LSF variable but JSM_NAMESPACE_RANK is set, and the rank file lists this host
C25_OnlyGlobalRankMissing ==
    /\ DOMAIN strategy.environ \cap LSFVariables = LSFVariables \ {"JSM_NAMESPACE_RANK"}
    /\ strategy.environ["LSB_DJOB_RANKFILE"] # ""
    /\ \E i \in 1..Len(strategy.rankfile) : strategy.rankfile[i] = strategy.hostname

C26_SettersAreNoOps ==
    [][ strategy'.sets = strategy.sets + 1 =>
          /\ strategy'.env = strategy.env
          /\ strategy'.environ = strategy.environ
          /\ strategy'.env._world_size = int(strategy.environ["JSM_NAMESPACE_SIZE"])
          /\ strategy'.env._global_rank = int(strategy.environ["JSM_NAMESPACE_RANK"])
          /\ strategy'.env._local_rank = int(strategy.environ["JSM_NAMESPACE_LOCAL_RANK"])
          /\ strategy'.env._main_address = strategy.rankfile[2]
          /\ strategy.environ["MASTER_PORT"] =
                (IF strategy'.env._main_port.type = "int"
                 THEN ToString(strategy'.env._main_port.v) ELSE strategy'.env._main_port.v)
      ]_vars

\* both setters were called, with arguments other than the values held
C26_Witness ==
    /\ strategy.sets = MaxSetupCalls
    /\ strategy.last.op = "set_global_rank"
    /\ strategy.last.arg # strategy.env._global_rank
    /\ strategy.env._world_size = 4

\* C27 (SpecLSF): detect() answers True only when every variable the LSF
\* environment relies on is present and False when any is missing, so that
\* after a True answer the construction raises no missing-variable error.
C27_DetectMeansConstructible ==
    /\ strategy.detected = "True" => LSFVariables \subseteq DOMAIN strategy.environ
    /\ strategy.detected = "False" => ~(LSFVariables \subseteq DOMAIN strategy.environ)
    /\ (strategy.detected = "True" /\ strategy.made.raised # "not called") =>
          ~(strategy.made.raised = "ValueError" /\ strategy.made.names \in LSFVariables)

\* the entries of the saved state that are neither the engine nor its optimizer
C28_ClientKeys ==
    { k \in DOMAIN strategy.state :
        /\ strategy.state[k] # "engine"
        /\ ~(strategy.engine_optimizer # "none" /\ strategy.state[k] = strategy.engine_optimizer) }

\* C28 (SpecDeepSpeed): save_checkpoint with exactly one DeepSpeed engine in
\* the state calls the engine's save_checkpoint exactly once, with a
\* client_state holding every entry of the state except those whose value is
\* the engine or the engine's optimizer (an object with a state_dict is
\* passed as that state_dict); a client key that collides with an
\* engine-internal key produces one warning naming it and the save proceeds.
C28_SaveSeparatesClientState ==
    (/\ strategy.raised \notin {"not called", "TypeError"}
     /\ Cardinality({ k \in DOMAIN strategy.state : strategy.state[k] = "engine" }) = 1) =>
        /\ strategy.raised = "no"
        /\ Len(strategy.engine_saves) = 1
        /\ DOMAIN strategy.engine_saves[1].client_state = C28_ClientKeys
        /\ \A k \in C28_ClientKeys :
              strategy.engine_saves[1].client_state[k] =
                 (IF strategy.state[k] = "optim" THEN "optim.state_dict()" ELSE strategy.state[k])
        /\ IF C28_ClientKeys \cap {"optimizer", "global_steps"} # {}
           THEN strategy.warnings = << C28_ClientKeys \cap {"optimizer", "global_steps"} >>
           ELSE strategy.warnings = << >>

\* the state held the engine, its optimizer and two user entries, one of them
\* under an engine-internal key
C28_Witness ==
    /\ strategy.raised = "no"
    /\ DOMAIN strategy.state = StateKeys
    /\ strategy.state["model"] = "engine"
    /\ strategy.state["optimizer"] = "optim"
    /\ strategy.engine_optimizer = "optim"
    /\ DOMAIN strategy.engine_saves[1].client_state = {"step_count", "global_steps"}
    /\ strategy.warnings = << {"global_steps"} >>

\* C29 (SpecXLACheckpoint): after a rank has saved a state holding model,
\* shard_metadata, optimizer and user entries and then loaded that checkpoint
\* into a fresh state with the same keys, the load has returned normally with
\* an empty remainder and the fresh state holds the saved user entries and
\* model parameters.
C29_SaveThenLoadRestores ==
    \A rank \in 0..(strategy.world_size - 1) :
        strategy.loaded[rank] =>
            /\ strategy.raised[rank] = "no"
            /\ strategy.remainder[rank] = << >>
            /\ strategy.state = strategy.ckpt

\* C30 (SpecXLACheckpoint): once every rank of a world of W ranks has saved
\* the sharded checkpoint, exactly W files were written, one per rank r,
\* named <name>_rank-<r>-of-<W>.pth, and no two ranks wrote the same file.
C30_OneFilePerRank ==
    (\A r \in 0..(strategy.world_size - 1) : strategy.saved[r] /\ strategy.raised[r] = "no") =>
        /\ { strategy.io_saves[i].path : i \in 1..Len(strategy.io_saves) } =
              { [name |-> "fsdp-checkpoint", rank |-> r, of |-> strategy.world_size] :
                  r \in 0..(strategy.world_size - 1) }
        /\ \A i, j \in 1..Len(strategy.io_saves) :
              strategy.io_saves[i].path = strategy.io_saves[j].path => i = j

\* the batches so far on which the optimizer stepped
C31_BatchesStepped == Len(SelectSeq(obs.grad_log, LAMBDA e : e = "step"))

\* C31 (SpecLoop): _batches_that_stepped never decreases, goes up by exactly
\* one in the on_advance_end of a batch on which the optimizer stepped and
\* stays unchanged after a batch that only accumulated, so between batches
\* it equals the number of batches on which the optimizer stepped.
C31_BatchesThatSteppedCountsOptimizerSteps ==
    loop.pc \in {"loop", "break", "returned"} => loop._batches_that_stepped = C31_BatchesStepped

\* the sum of the numerators of the last n tensors of a sequence
RECURSIVE C32_SumLast(_, _)
C32_SumLast(seq, n) ==
    IF n = 0 THEN 0 ELSE seq[Len(seq)].num + C32_SumLast(SubSeq(seq, 1, Len(seq) - 1), n - 1)

\* C32 (SpecLoopOptim): with accumulation factor k, every loss handed to
\* backward is the training-step loss of its micro-batch divided by k; and
\* when a window of k micro-batches, each backpropagated once, has just been
\* closed by its optimizer step, the k losses backpropagated in it sum to the
\* mean of the k training-step losses.
C32_BackwardLossIsStepLossOverK ==
    LET k == trainer.accumulate_grad_batches
        n == Len(obs.backward_losses)
    IN  /\ Len(obs.backward_of) = n
        /\ \A i \in 1..n :
              /\ obs.backward_losses[i].type = "Tensor"
              /\ obs.backward_losses[i].num * obs.backward_of[i].den * k =
                 obs.backward_of[i].num * obs.backward_losses[i].den
        /\ (/\ loop.pc = "loop"
            /\ trainer.optimizer_closure_calls = 1
            /\ n >= k
            /\ n = loop.batch_progress.current.ready
            /\ n % k = 0
            /\ obs.grad_log # << >>
            /\ obs.grad_log[Len(obs.grad_log)] = "step") =>
              /\ \A i \in (n - k + 1)..n : obs.backward_losses[i].den = k
              /\ C32_SumLast(obs.backward_losses, k) = C32_SumLast(obs.backward_of, k)

\* a full window of MaxAccumulate micro-batches with different training-step
\* losses was backpropagated and closed by an optimizer step
C32_Witness ==
    /\ loop.pc = "loop"
    /\ trainer.accumulate_grad_batches = MaxAccumulate
    /\ trainer.optimizer_closure_calls = 1
    /\ Len(obs.backward_losses) = MaxAccumulate
    /\ obs.backward_of[1] # obs.backward_of[MaxAccumulate]
    /\ obs.grad_log[Len(obs.grad_log)] = "step"
    /\ loop.optim_progress.step.total.completed = 1

\* C33: on a restart at a batch for which validation is due, the first
\* advance() returns early: it fetches no batch, trains nothing and leaves the
\* batch counters and the fetcher alone; on_advance_end() then runs the
\* validation while the loop is still restarting, and only then the
\* restarting flag is cleared; the advance() after that asks the fetcher for
\* its next batch and, the iterator having one, trains it.
C33_FirstAdvance ==
    /\ loop.pc = "loop" /\ loop.restarting /\ obs.advances = 0
    /\ _should_check_val_fx(LoopBundle)

C33_RestartSkipsToValidation ==
    [][ /\ (C33_FirstAdvance /\ obs'.advances = 1) =>
               /\ obs'.restart_returns = 1
               /\ obs'.fetched = << >> /\ obs'.trained = << >>
               /\ obs'.val_runs = << >>
               /\ loop'.batch_progress = loop.batch_progress
               /\ data_fetcher' = data_fetcher
               /\ loop'.restarting /\ loop'.pc = "advanced"
        /\ (loop.pc = "advanced" /\ obs.restart_returns = 1 /\ obs.advances = 1) =>
               /\ loop.restarting
               /\ Len(obs'.val_runs) = 1
               /\ obs'.val_runs[1].batch = loop.batch_progress.current.ready
               /\ obs'.fetched = << >> /\ obs'.trained = << >>
               /\ loop'.batch_progress = loop.batch_progress
               /\ ~loop'.restarting /\ loop'.pc = "loop"
        /\ (loop.pc = "loop" /\ obs.restart_returns = 1 /\ obs.advances = 1
              /\ HasNext(data_fetcher.dataloader, data_fetcher.start_pos)
              /\ obs'.advances = 2) =>
               /\ ~loop.restarting
               /\ obs'.restart_returns = 1
               /\ Len(obs'.fetched) = 1 /\ obs'.trained = obs'.fetched
               /\ obs'.fetched[1] = data_fetcher.start_pos + 1
               /\ loop'.batch_progress.current.ready = loop.batch_progress.current.ready + 1
               /\ Len(obs'.val_runs) = 1 ]_vars

C33_Witness ==
    /\ loop.restarts = 1 /\ obs.restart_returns = 1 /\ obs.advances = 2
    /\ Len(obs.val_runs) = 1 /\ Len(obs.trained) = 1
    /\ loop.pc = "advanced"

\* C34: while no distributed backend is initialized, a strategy's barrier
\* returns without a call to the backend, and reduce, all_gather and
\* broadcast return their input unchanged without a call to the backend.
C34_NoBackendMeansNoOp ==
    (~strategy.launched /\ strategy.last.op # "none") =>
        /\ strategy.backend = << >>
        /\ strategy.result.raised = "no"
        /\ strategy.last.op # "barrier" => strategy.result.value = strategy.last.arg

\* C35: with an optimizer that calls the closure once per step and a
\* strategy that leaves accumulation to the loop, every accumulation window
\* starts with its one zero_grad: zero_grad is the first entry of the
\* gradient log and the entry after each optimizer step, and it is nowhere
\* else, in particular never between a backward and the step that ends the
\* window, whether or not training_step declares batch_idx.
C35_ZeroGradOnlyOpensTheWindow ==
    (trainer.optimizer_closure_calls = 1 /\ ~trainer.handles_gradient_accumulation) =>
        \A i \in 1..Len(obs.grad_log) :
            (obs.grad_log[i] = "zero_grad") <=> (i = 1 \/ obs.grad_log[i - 1] = "step")

C35_DeclaresBatchIdx == trainer.step_has_batch_idx => C35_ZeroGradOnlyOpensTheWindow

\* C36: when a trained batch is the last of the epoch (ready batches equal
\* num_training_batches, or the fetcher reported the last batch) and the
\* strategy leaves accumulation to the loop, the optimizer steps on that
\* batch whatever the state of the accumulation window: the gradient log ends
\* with an optimizer step, so no backward is left unapplied when the epoch
\* returns after it.
C36_LastEntry == obs.grad_log[Len(obs.grad_log)]

C36_TrainedLastBatch ==
    /\ loop.pc \in {"advanced", "loop", "returned"}
    /\ obs.trained # << >> /\ obs.fetched # << >>
    /\ obs.trained[Len(obs.trained)] = obs.fetched[Len(obs.fetched)]
    /\ _num_ready_batches_reached(LoopBundle)
    /\ ~trainer.handles_gradient_accumulation

C37_NoneKeepsItsPlace ==
    \A i \in 1..Len(yielded) :
        /\ yielded[i].batch = i
        /\ yielded[i].is_last => i = data_fetcher.dataloader.len

C39_LoadSplitsClientState ==
    strategy.load.raised = "no" =>
        LET ckpt == strategy.load.checkpoint
            requested == strategy.load.requested
            restored == strategy.load.state
            remainder == strategy.load.remainder
        IN  /\ DOMAIN restored = DOMAIN requested
            /\ DOMAIN remainder = DOMAIN ckpt \ DOMAIN requested
            /\ DOMAIN remainder \cap DOMAIN restored = {}
            /\ \A k \in DOMAIN ckpt :
                  IF k \in DOMAIN requested
                  THEN restored[k] = ckpt[k]
                  ELSE remainder[k] = ckpt[k]
            /\ \A k \in DOMAIN requested \ DOMAIN ckpt : restored[k] = requested[k]

C39_Witness ==
    /\ strategy.load.raised = "no"
    /\ DOMAIN strategy.load.checkpoint \cap DOMAIN strategy.load.requested # {}
    /\ DOMAIN strategy.load.checkpoint \ DOMAIN strategy.load.requested # {}
    /\ DOMAIN strategy.load.remainder # {}

\* C40: the index sequences the ranks of one epoch have produced are pairwise
\* disjoint and repeat no index, every index is one of 0..n-1, the lengths of
\* any two of them differ by at most one, and once every rank has produced
\* its sequence every index 0..n-1 is in exactly one of them.
C40_Produced == { r \in DOMAIN strategy.samplers :
                     strategy.samplers[r].raised = "no" /\ strategy.samplers[r].iterated }

C40_Indices(r) == { strategy.samplers[r].indices[j] : j \in 1..Len(strategy.samplers[r].indices) }

C40_RanksPartitionTheDataset ==
    /\ \A r \in C40_Produced :
          /\ C40_Indices(r) \subseteq 0..(strategy.dataset_len - 1)
          /\ Cardinality(C40_Indices(r)) = Len(strategy.samplers[r].indices)
    /\ \A r, s \in C40_Produced :
          /\ r # s => C40_Indices(r) \cap C40_Indices(s) = {}
          /\ Len(strategy.samplers[r].indices) - Len(strategy.samplers[s].indices) \in {-1, 0, 1}
    /\ C40_Produced = DOMAIN strategy.samplers =>
          UNION { C40_Indices(r) : r \in C40_Produced } = 0..(strategy.dataset_len - 1)
    /\ \A r \in DOMAIN strategy.samplers :
          strategy.samplers[r].raised \in {"not constructed", "no"}
             \/ (strategy.samplers[r].raised = "AssertionError" /\ ~strategy.samplers[r].iterated
                   /\ 0 < strategy.dataset_len /\ strategy.dataset_len <= r)

C40_Witness ==
    /\ C40_Produced = DOMAIN strategy.samplers
    /\ strategy.num_replicas = MaxReplicas /\ strategy.dataset_len = MaxSamples
    /\ strategy.shuffle
    /\ strategy.samplers[0].indices # <<0, MaxReplicas>>

====
